---------------------------- MODULE Spec2Model ----------------------------
(***************************************************************************)
(* Model of the incremental synchronisation engine of Utilities_Scraper:   *)
(* the merge/dedup functions, the Home Assistant passes                    *)
(* run_hsv_incremental and run_ecobee_incremental with their data files,   *)
(* the submit/poll loops of the utility portal scrapers, the date ranges   *)
(* the scrapers request, the coordinator update and the retry loop of the  *)
(* thermostat data request.                                                *)
(*                                                                         *)
(* The module holds several specifications over one set of variables; each *)
(* specification moves its own group of variables and leaves the others    *)
(* parked at a fixed value.                                                *)
(*   SpecMerge  merge_data as a pure function, applied twice to inputs     *)
(*              drawn from bounded sets                                    *)
(*   Spec       sequences of passes of one source over its data file:      *)
(*              run_hsv_incremental (one action per return path) or        *)
(*              run_ecobee_incremental (request by request)                *)
(*   SpecPoll   the submit/poll loops and the standalone incremental main  *)
(*   SpecWindow the date ranges requested by the full-history mains (one   *)
(*              request or the chunk loop) and by the incremental runs     *)
(*   SpecUpdate one update of a coordinator over the two sources           *)
(*   SpecRetry  one runtime-report request with its retry loop             *)
(*   SpecSeries the merge functions over the passes of one series, with    *)
(*              monthly records that carry no timestamp                    *)
(*   SpecSession the token cache over a sequence of passes: load, probe,   *)
(*              login, save, and the requests sent with the token          *)
(*   SpecPolite the requests and the sleeps of one fetch loop over the     *)
(*              industries                                                 *)
(*   SpecDiscover the probing for the start of the available history       *)
(*   SpecFlow   the steps of the config flow up to the created entry       *)
(*   SpecAvail  the availability check with its 24-hour cache, the window  *)
(*              tests, and the chunk loop handed the window found          *)
(*   SpecLoginTest two calls of hsv_test_login over the one token file     *)
(*   SpecCollect the sensor coordinator's collections over time            *)
(***************************************************************************)
EXTENDS Integers, Sequences, FiniteSets, TLC

VARIABLES
    \* ---- SpecMerge
    mFn,          \* which merge_data is applied: "hsv" or "ecobee" ("none" when parked)
    mExisting,    \* hsv: the `existing` dict handed to merge_data / returned by it
    mPayload,     \* hsv: the `new_data` dict
    eExisting,    \* ecobee: the `existing` dict
    ePayload,     \* ecobee: the `new_rows` list
    mAdded,       \* added count returned by the last call
    mStep,        \* number of merge_data calls made with the payload
    \* ---- Spec (the passes)
    source,       \* the source whose passes this behaviour follows: "hsv" or "ecobee"
    hsvFile,      \* the data file of run_hsv_incremental
    hsvOutcome,   \* what the last pass of run_hsv_incremental returned
    hsvSeen,      \* HTTP statuses answered to the usage requests of the last pass
    ecoPc,        \* position of run_ecobee_incremental
    ecoTokenFile, \* cached access token (0: no token file)
    ecoToken,     \* local variable `token` (0: None)
    ecoFile,      \* the data file of run_ecobee_incremental
    ecoOutcome,   \* what the pass returned or raised
    ecoTrace,     \* requests sent so far in this pass
    \* ---- SpecPoll
    pollFn,       \* which loop runs
    pollPc,       \* position in the loop
    pollStatus,   \* status field of the last response
    pollCount,    \* re-polls sent for the current job
    pollBudget,   \* the loop's own counter: `retries` (counts down) or `retry_count` (counts up)
    incIdx,       \* standalone incremental main: index of the industry being fetched
    incLog,       \* standalone incremental main: what happened to each industry
    \* ---- SpecWindow, SpecIsolation (the date ranges a run requests)
    wFn,          \* which function plans the requests
    wPc,          \* position in it
    wStart,       \* start_date of the run (day number)
    wEnd,         \* end_date of the run: datetime.now()
    wChunk,       \* chunk_size / max_chunk_size
    wCkpt,        \* the stored checkpoint the run starts from
    wIdx,         \* industries done by the loop over the industries
    wCurEnd,      \* current_end of the chunk loop
    wWindows,     \* the date ranges requested so far, in order
    wKept,        \* the requested ranges whose readings are in the result
    wAllowed,     \* the outcomes a request can have in this behaviour
    \* ---- SpecUpdate (one update of a coordinator)
    uFn,          \* which coordinator runs the update
    uPc,          \* position in _async_update_data
    uResult,      \* what the update hands to its caller
    \* ---- SpecRetry (one data request of the thermostat API)
    rFn,          \* which function sends the request
    rPc,          \* position in it
    rRetries,     \* its parameter retries
    rAttempt,     \* requests sent so far
    rLast,        \* the status of the last answer
    rSlept,       \* seconds spent in time.sleep
    \* ---- SpecSession (the token cache over the passes of one function)
    sFn,          \* the function whose passes this behaviour follows
    sPc,          \* position in the pass
    sTokenFile,   \* the token file (0: no file)
    sHeader,      \* the token the requests carry: the session's Authorization header / access_token
    sRejected,    \* tokens a request was answered 401 for, until the login hands them out again
    sTrace,       \* requests sent so far in this pass
    sOutcome,     \* how the pass ended
    \* ---- SpecSeries (one series over the passes of one merge function)
    gFn,          \* the merge function
    gSeries,      \* the series the data file holds
    gBefore,      \* the series the data file held before the last pass
    gPayload,     \* the readings the last pass fetched for the series
    gAdded,       \* the added count of the last call
    gShape,       \* what the last call handed back: a pair, one value, nothing, an exception
    dFn,          \* the fetch loop followed: its function, "none" outside SpecPolite
    dPc,          \* fetch loop: "fetch", "done" or "raised"
    dChunks,      \* fetch loop: date ranges requested for each industry
    dIndustry,    \* fetch loop: index of the industry of the next request
    dChunk,       \* fetch loop: index of the next date range of the industry
    dLog,         \* fetch loop: the HTTP requests sent and the sleeps taken, in order
    xFn,          \* history discovery: the function followed, "none" outside SpecDiscover
    xPc,          \* history discovery: "scan", "fine", "month" or "done"
    xDaysBack,    \* history discovery: days before now of the next probe
    xValid,       \* history discovery: days before now of the oldest probe with data, 0 for None
    xInvalid,     \* find_data_start: consecutive_invalid
    xEnd,         \* find_hsv_data_start: end of the range of the fine-tune loop
    xProbes,      \* history discovery: requests sent so far
    xDeepest,     \* history discovery: the most days before now a request asked for
    xResult,      \* history discovery: days of history returned, -1 before the return
    xGapped,      \* history discovery: a probe nearer to now than xValid was below the threshold
    xPending,     \* history discovery: the nearest probe below the threshold not nearer than xValid, 0 for none
    fStep,        \* config flow: the form or menu shown, "created" after the entry, "none" outside SpecFlow
    fTemp,        \* config flow: self._temp, the credentials entered
    fHsvOk,       \* config flow: self._hsv_ok
    fEcoOk,       \* config flow: self._ecobee_ok
    fHsvLast,     \* config flow: outcome of the last hsv_test_login run on fTemp, "none" before one
    fEcoLast,     \* config flow: outcome of the last ecobee_test_login run on fTemp, "none" before one
    fEntry,       \* config flow: data of the config entry created, NoEntry before
    aFn,          \* availability: the function of the last call, "none" before one
    aPc,          \* availability: "idle", "window", "maxwin", "start", "have", "loop", "done" or "raised"
    aClock,       \* availability: datetime.now(), in hours
    aCache,       \* availability: DataAvailability._cache, by cache key
    aDays,        \* availability: the window size of the next probe
    aLargestOk,   \* availability: the largest window size probed with success in this call, 0 for none
    aMaxDays,     \* availability: the value returned by the window test
    aResult,      \* availability: what the last check returned
    aProbes,      \* availability: probe requests sent by the last check
    aCurEnd,      \* chunk loop: current_end, in days after start_date
    aIter,        \* chunk loop: iterations made
    tPc,          \* login tests: position of each hsv_test_login call
    tCred,        \* login tests: the credentials passed to each call
    tSession,     \* login tests: the user of the bearer token of each call's session, "none" without one
    tResult,      \* login tests: what each call returned, "none" before
    tFile,        \* login tests: the user of the token in .hsv_test_token.json, "none" when the file is absent
    cNow,         \* sensor coordinator: datetime.now(), in hours
    cFirstRefresh,\* sensor coordinator: self._first_refresh
    cLast,        \* sensor coordinator: self._last_collection, NoCollection for None
    cGood,        \* sensor coordinator: per source, the hour of its last collection that succeeded
    cLookback,    \* sensor coordinator: data_period_days of the last collection, 0 before one
    cOutcome      \* sensor coordinator: per source, what its collector returned in the last collection

mergeVars == <<mFn, mExisting, mPayload, eExisting, ePayload, mAdded, mStep>>
hsvVars   == <<hsvFile, hsvOutcome, hsvSeen>>
ecoVars   == <<ecoPc, ecoTokenFile, ecoToken, ecoFile, ecoOutcome, ecoTrace>>
passVars  == <<source, hsvVars, ecoVars>>
pollVars  == <<pollFn, pollPc, pollStatus, pollCount, pollBudget, incIdx, incLog>>
planVars  == <<wFn, wPc, wStart, wEnd, wChunk, wCkpt, wIdx, wCurEnd, wWindows, wKept, wAllowed>>
updVars   == <<uFn, uPc, uResult>>
retryVars == <<rFn, rPc, rRetries, rAttempt, rLast, rSlept>>
sessVars  == <<sFn, sPc, sTokenFile, sHeader, sRejected, sTrace, sOutcome>>
serVars   == <<gFn, gSeries, gBefore, gPayload, gAdded, gShape>>
polVars   == <<dFn, dPc, dChunks, dIndustry, dChunk, dLog>>
disVars   == <<xFn, xPc, xDaysBack, xValid, xInvalid, xEnd, xProbes, xDeepest, xResult, xGapped, xPending>>
flowVars  == <<fStep, fTemp, fHsvOk, fEcoOk, fHsvLast, fEcoLast, fEntry>>
availVars == <<aFn, aPc, aClock, aCache, aDays, aLargestOk, aMaxDays, aResult, aProbes, aCurEnd, aIter>>
testVars  == <<tPc, tCred, tSession, tResult, tFile>>
collVars  == <<cNow, cFirstRefresh, cLast, cGood, cLookback, cOutcome>>
vars      == <<mergeVars, passVars, pollVars, planVars, updVars, retryVars, sessVars, serVars, polVars, disVars, flowVars, availVars, testVars, collVars>>

---------------------------------------------------------------------------
(* Bounds of the model *)

\* timestamps are 1..MaxTs; NoTs stands for a reading without a timestamp
MaxTs == 2
\* longest reading list drawn as an input of merge_data
MaxLen == 2

NoTs == 0

\* two usage values are enough to tell "same reading" from "same key, other value"
Usages == {"u1", "u2"}

---------------------------------------------------------------------------
(* Generic helpers *)

RECURSIVE SeqsUpTo(_, _)
\* all sequences over S of length <= n
SeqsUpTo(S, n) ==
    IF n = 0 THEN {<<>>}
    ELSE LET shorter == SeqsUpTo(S, n - 1)
         IN shorter \cup {Append(s, x) : s \in {t \in shorter : Len(t) = n - 1}, x \in S}

Range(s) == {s[i] : i \in 1..Len(s)}

---------------------------------------------------------------------------
(* Data model of the utility-portal data file                               *)
(*   { industry: { interval: [ reading, ... ] } }                           *)
(* A dict key that is absent is a record with present = FALSE.              *)

Industries == <<"electric", "gas", "water">>
IndustrySet == Range(Industries)
Intervals == {"HOURLY", "MONTHLY"}

Reading == [ts : 0..MaxTs, usage : Usages]

AbsentSeries == [present |-> FALSE, rd |-> <<>>]
SeriesOf(rd) == [present |-> TRUE, rd |-> rd]
NoIntervals == [HOURLY |-> AbsentSeries, MONTHLY |-> AbsentSeries]
\* the intervals dict that holds list rd under interval j only
OnlyInterval(j, rd) == [NoIntervals EXCEPT ![j] = SeriesOf(rd)]
AbsentIndustry == [present |-> FALSE, iv |-> NoIntervals]
\* the value {} of an industry key
EmptyIndustry == [present |-> TRUE, iv |-> NoIntervals]
\* {"electric": {}, "gas": {}, "water": {}}
EmptyData == [electric |-> EmptyIndustry, gas |-> EmptyIndustry, water |-> EmptyIndustry]

\* reading.get("timestamp"): None (NoTs) when the reading has no timestamp
Timestamp(r) == r.ts

\* the set built before the loop: timestamps of the stored readings, None left out
ExistingTimestamps(rd) == {Timestamp(rd[k]) : k \in 1..Len(rd)} \ {NoTs}

RECURSIVE AppendLoop(_, _, _, _)
\* for reading in readings: append when its timestamp is not in the set, and add
\* the timestamp (None included) to the set
AppendLoop(rd, seen, readings, added) ==
    IF readings = <<>> THEN [rd |-> rd, added |-> added]
    ELSE IF Timestamp(Head(readings)) \notin seen
         THEN AppendLoop(Append(rd, Head(readings)), seen \cup {Timestamp(Head(readings))},
                         Tail(readings), added + 1)
         ELSE AppendLoop(rd, seen, Tail(readings), added)

\* key=lambda x: x.get("timestamp", ""): a reading without timestamp sorts first
SortKey(r) == r.ts

RECURSIVE InsertStable(_, _)
InsertStable(s, r) ==
    IF s = <<>> THEN <<r>>
    ELSE IF SortKey(Head(s)) <= SortKey(r)
         THEN <<Head(s)>> \o InsertStable(Tail(s), r)
         ELSE <<r>> \o s

RECURSIVE StableSort(_)
\* list.sort(key=...): stable, ascending
StableSort(s) ==
    IF s = <<>> THEN <<>>
    ELSE InsertStable(StableSort(SubSeq(s, 1, Len(s) - 1)), s[Len(s)])

\* the list as the append loop left it, were the sort missing
AppendOrder(rd) == rd

\* existing[industry][interval].sort(...), the last statement of the append path
SortReadings(rd) == StableSort(rd)

\* what the append path leaves: the sorted list and the count of appended readings
Sorted(m) == [s |-> SeriesOf(SortReadings(m.rd)), added |-> m.added]

\* the append path: dedup loop, then sort
MergeExistingSeries(rd, readings) ==
    Sorted(AppendLoop(rd, ExistingTimestamps(rd), readings, 0))

\* an interval newly created: existing[industry][interval] = readings
CreateSeries(readings) == [s |-> SeriesOf(readings), added |-> Len(readings)]

\* body of `for interval, readings in new_data[industry].items()`
MergeInterval(e, n) ==
    IF ~n.present THEN [s |-> e, added |-> 0]
    ELSE IF ~e.present THEN CreateSeries(n.rd)
    ELSE MergeExistingSeries(e.rd, n.rd)

\* an industry after the loop over its intervals
IndustryResult(h, m) ==
    [ind |-> [present |-> TRUE, iv |-> [HOURLY |-> h.s, MONTHLY |-> m.s]],
     added |-> h.added + m.added]

\* body of `for industry in ["electric", "gas", "water"]`
MergeIndustry(ex, nw) ==
    IF ~nw.present THEN [ind |-> ex, added |-> 0]
    ELSE IF ~ex.present
         THEN [ind |-> nw, added |-> Len(nw.iv.HOURLY.rd) + Len(nw.iv.MONTHLY.rd)]
         ELSE IndustryResult(MergeInterval(ex.iv.HOURLY, nw.iv.HOURLY),
                             MergeInterval(ex.iv.MONTHLY, nw.iv.MONTHLY))

\* `return existing, added_count`
DataResult(e, g, w) ==
    [data |-> [electric |-> e.ind, gas |-> g.ind, water |-> w.ind],
     added |-> e.added + g.added + w.added]

\* merge_data(existing, new_data) -> (existing, added_count)
merge_data(existing, new_data) ==
    DataResult(MergeIndustry(existing.electric, new_data.electric),
               MergeIndustry(existing.gas, new_data.gas),
               MergeIndustry(existing.water, new_data.water))

\* readings of one industry (an absent key holds none)
IndustryReadings(ind) == Len(ind.iv.HOURLY.rd) + Len(ind.iv.MONTHLY.rd)

\* number of readings held by the data
TotalReadings(data) ==
    IndustryReadings(data.electric) + IndustryReadings(data.gas) + IndustryReadings(data.water)

---------------------------------------------------------------------------
(* Data model of the thermostat data file: {"readings": [row, ...]}         *)
(* A row is {"date", "time", "raw"}; raw is the whole CSV row, modelled by   *)
(* the columns that follow date and time.                                   *)

MaxDate == 2
MaxTime == 2
RawValues == {1, 2}

Row == [date : 1..MaxDate, time : 1..MaxTime, raw : RawValues]

\* k = (r.get("date"), r.get("time"), r.get("raw"))
RowKey(r) == <<r.date, r.time, r.raw>>

\* tuple comparison of the sort key (date, time, raw)
RowLeq(a, b) ==
    \/ a.date < b.date
    \/ a.date = b.date /\ a.time < b.time
    \/ a.date = b.date /\ a.time = b.time /\ a.raw <= b.raw

RECURSIVE EcoAppendLoop(_, _, _, _)
EcoAppendLoop(rd, keys, rows, added) ==
    IF rows = <<>> THEN [rd |-> rd, added |-> added]
    ELSE LET r == Head(rows)
         IN IF RowKey(r) \notin keys
            THEN EcoAppendLoop(Append(rd, r), keys \cup {RowKey(r)}, Tail(rows), added + 1)
            ELSE EcoAppendLoop(rd, keys, Tail(rows), added)

RECURSIVE EcoInsertStable(_, _)
EcoInsertStable(s, r) ==
    IF s = <<>> THEN <<r>>
    ELSE IF RowLeq(Head(s), r)
         THEN <<Head(s)>> \o EcoInsertStable(Tail(s), r)
         ELSE <<r>> \o s

RECURSIVE EcoSort(_)
EcoSort(s) ==
    IF s = <<>> THEN <<>>
    ELSE EcoInsertStable(EcoSort(SubSeq(s, 1, Len(s) - 1)), s[Len(s)])

\* merge_data(existing, new_rows) -> (existing, added); existing is the list under
\* "readings" (created empty when the key is missing)
eco_merge_data(readings, new_rows) ==
    LET m == EcoAppendLoop(readings, {RowKey(readings[k]) : k \in 1..Len(readings)}, new_rows, 0)
    IN [rd |-> EcoSort(m.rd), added |-> m.added]

---------------------------------------------------------------------------
(* Parked values: what a group of variables holds under a specification    *)
(* that does not move it                                                    *)

MergeParked ==
    /\ mFn = "none"
    /\ mExisting = EmptyData
    /\ mPayload = EmptyData
    /\ eExisting = <<>>
    /\ ePayload = <<>>
    /\ mAdded = 0
    /\ mStep = 0

---------------------------------------------------------------------------
(* SpecMerge: merge_data applied to bounded inputs, then applied again to   *)
(* the same payload                                                         *)

\* the three shapes `existing` can have at the series the payload brings
Shapes == {"noIndustry", "noInterval", "series"}

\* existing dict whose industry i has the given shape (the others hold {})
ExistingOf(i, j, shape, rd) ==
    [EmptyData EXCEPT ![i] =
        CASE shape = "noIndustry" -> AbsentIndustry
          [] shape = "noInterval" -> EmptyIndustry
          [] OTHER -> [present |-> TRUE, iv |-> OnlyInterval(j, rd)]]

\* new_data dict that brings readings for interval j of industry i only
PayloadOf(i, j, readings) ==
    [[electric |-> AbsentIndustry, gas |-> AbsentIndustry, water |-> AbsentIndustry]
        EXCEPT ![i] = [present |-> TRUE, iv |-> OnlyInterval(j, readings)]]

\* reading lists a thermostat data file can hold: whatever merge_data produced
EcoStoredLists == {eco_merge_data(<<>>, q).rd : q \in SeqsUpTo(Row, MaxLen)}

\* a stored list is any list: the creation paths of merge_data store a payload
\* list as it came
InitMergeHsv ==
    /\ mFn = "hsv"
    /\ \E i \in IndustrySet, j \in Intervals, shape \in Shapes,
          rd \in SeqsUpTo(Reading, MaxLen), readings \in SeqsUpTo(Reading, MaxLen) :
          /\ shape # "series" => rd = <<>>
          /\ mExisting = ExistingOf(i, j, shape, rd)
          /\ mPayload = PayloadOf(i, j, readings)
    /\ eExisting = <<>>
    /\ ePayload = <<>>
    /\ mAdded = 0
    /\ mStep = 0

InitMergeEco ==
    /\ mFn = "ecobee"
    /\ mExisting = EmptyData
    /\ mPayload = EmptyData
    /\ eExisting \in EcoStoredLists
    /\ ePayload \in SeqsUpTo(Row, MaxLen)
    /\ mAdded = 0
    /\ mStep = 0

\* merged, added = merge_data(existing, new_payload)
MergeHsvCall ==
    /\ mFn = "hsv"
    /\ mStep < 2
    /\ LET r == merge_data(mExisting, mPayload)
       IN /\ mExisting' = r.data
          /\ mAdded' = r.added
    /\ mStep' = mStep + 1
    /\ UNCHANGED <<mFn, mPayload, eExisting, ePayload>>

\* merged, added = merge_data(existing, new_rows)
MergeEcoCall ==
    /\ mFn = "ecobee"
    /\ mStep < 2
    /\ LET r == eco_merge_data(eExisting, ePayload)
       IN /\ eExisting' = r.rd
          /\ mAdded' = r.added
    /\ mStep' = mStep + 1
    /\ UNCHANGED <<mFn, mPayload, mExisting, ePayload>>

---------------------------------------------------------------------------
(* run_hsv_incremental: one pass of the utility-portal source               *)

\* most readings one pass fetches over its three usage requests
MaxFetch == 2
\* passes are followed while the data file holds at most this many readings
MaxStored == 3

HttpStatuses == {200, 401}

\* the portal reports one usage value per reading here; a second value for a
\* stored timestamp is an input of SpecMerge
FetchedReading == [ts : 0..MaxTs, usage : {"u1"}]

\* answers to GET /services/secured/usage with at most n readings: a status and,
\* with 200, the "usage" list
UsageResponses(n) ==
    {[status |-> 200, usage |-> u] : u \in SeqsUpTo(FetchedReading, n)}
        \cup {[status |-> s, usage |-> <<>>] : s \in HttpStatuses \ {200}}

\* get_usage_data: [] unless the status is 200
get_usage_data(resp) == IF resp.status # 200 THEN <<>> ELSE resp.usage

\* DEFAULT_ELECTRIC_INTERVAL, DEFAULT_GAS_INTERVAL, DEFAULT_WATER_INTERVAL
IntervalOf == [i \in IndustrySet |-> IF i = "water" THEN "MONTHLY" ELSE "HOURLY"]

\* a data file: absent, or present and either parsable JSON or not
NoFile == [exists |-> FALSE, parses |-> FALSE, data |-> EmptyData]
GoodFile(data) == [exists |-> TRUE, parses |-> TRUE, data |-> data]
\* what an interrupted write_text leaves: a truncated or partial document
PartialFile == [exists |-> TRUE, parses |-> FALSE, data |-> EmptyData]

\* a pass that starts from an empty document whatever the data file holds
LoadExistingEmpty(file) == EmptyData

\* _load_json: {} when the file is absent or json.loads raises
\* and `if not existing: existing = {"electric": {}, "gas": {}, "water": {}}`
LoadExisting(file) == IF file.exists /\ file.parses THEN file.data ELSE EmptyData

\* _save_json: Path.write_text truncates the data file and writes the document in
\* place; `completes` is FALSE when the process dies inside the call
SaveJson(data, completes) == IF completes THEN GoodFile(data) ELSE PartialFile

\* readings[-1].get("timestamp") of a non-empty list (NoTs where .get() gives None,
\* and where _compute_last_timestamps stores no entry)
LastTimestamp(series) ==
    IF series.present /\ series.rd # <<>> THEN Timestamp(series.rd[Len(series.rd)]) ELSE NoTs

\* _compute_last_timestamps
ComputeLastTimestamps(data) ==
    [i \in IndustrySet |->
        [j \in Intervals |-> IF data[i].present THEN LastTimestamp(data[i].iv[j]) ELSE NoTs]]

\* new_payload[industry][interval] = readings, under the industry's configured interval
PayloadEntry(i, readings) == [present |-> TRUE, iv |-> OnlyInterval(IntervalOf[i], readings)]

\* new_payload after the loop over the three industries
NewPayload(re, rg, rw) ==
    [electric |-> PayloadEntry("electric", get_usage_data(re)),
     gas      |-> PayloadEntry("gas", get_usage_data(rg)),
     water    |-> PayloadEntry("water", get_usage_data(rw))]

NoOutcome == [kind |-> "none", ok |-> FALSE, detail |-> "", added |-> 0, total |-> 0, requests |-> 0]
\* the dict a pass returns
Returned(ok, detail, added, total, requests) ==
    [kind |-> "returned", ok |-> ok, detail |-> detail, added |-> added, total |-> total,
     requests |-> requests]
\* the process died inside the pass: nothing is returned
Crashed(requests) ==
    [kind |-> "crashed", ok |-> FALSE, detail |-> "", added |-> 0, total |-> 0, requests |-> requests]

HsvInit ==
    /\ hsvFile = NoFile
    /\ hsvOutcome = NoOutcome
    /\ hsvSeen = {}

\* create_session returned None
HsvAuthFailed ==
    /\ source = "hsv"
    /\ hsvOutcome' = Returned(FALSE, "authentication failed", 0, 0, 0)
    /\ hsvSeen' = {}
    /\ UNCHANGED hsvFile

\* get_account_info returned None, or the accounts list holds no account id
HsvNoAccount ==
    /\ source = "hsv"
    /\ \E detail \in {"could not fetch account info", "no account id found"} :
          hsvOutcome' = Returned(FALSE, detail, 0, 0, 0)
    /\ hsvSeen' = {}
    /\ UNCHANGED hsvFile

\* test_only: the pass returns after the account lookup, before any data request
HsvTestOnly ==
    /\ source = "hsv"
    /\ hsvOutcome' = Returned(TRUE, "ok", 0, 0, 0)
    /\ hsvSeen' = {}
    /\ UNCHANGED hsvFile

\* the pass from `existing = _load_json(...)` to its return: three usage requests,
\* merge_data, _save_json
HsvSync ==
    /\ source = "hsv"
    /\ \E re \in UsageResponses(MaxFetch) :
       \E rg \in UsageResponses(MaxFetch - Len(re.usage)) :
       \E rw \in UsageResponses(MaxFetch - Len(re.usage) - Len(rg.usage)) :
       \E m \in {merge_data(LoadExisting(hsvFile), NewPayload(re, rg, rw))} :
       \E total \in {TotalReadings(m.data)} :
          /\ total <= MaxStored
          /\ hsvSeen' = {re.status, rg.status, rw.status}
          /\ \E completes \in BOOLEAN :
                /\ hsvFile' = SaveJson(m.data, completes)
                /\ hsvOutcome' = IF completes
                                 THEN Returned(TRUE, "ok", m.added, total, Len(Industries))
                                 ELSE Crashed(Len(Industries))

---------------------------------------------------------------------------
(* run_ecobee_incremental: one pass of the thermostat source, one action    *)
(* per request                                                              *)

\* access tokens the login flow can hand out are 1..MaxTokens; NoToken is None
MaxTokens == 2
\* most rows one runtime report brings
MaxRows == 2
\* passes are followed while the data file holds at most this many rows
MaxEcoStored == 3

NoToken == 0

NoEcoFile == [exists |-> FALSE, parses |-> FALSE, rd |-> <<>>]
GoodEcoFile(rd) == [exists |-> TRUE, parses |-> TRUE, rd |-> rd]
PartialEcoFile == [exists |-> TRUE, parses |-> FALSE, rd |-> <<>>]

\* _load_json, `if not existing: existing = {"readings": []}`, existing["readings"]
EcoLoadExisting(file) == IF file.exists /\ file.parses THEN file.rd ELSE <<>>

\* _save_json of the thermostat module: the same in-place write_text
EcoSaveJson(rd, completes) == IF completes THEN GoodEcoFile(rd) ELSE PartialEcoFile

\* load_token: the cached access_token, None without a readable token file
LoadToken(tokenFile) == tokenFile

\* answers to GET /user
UserResponses == [status : HttpStatuses, thermostats : BOOLEAN]

\* get_thermostat_id: raise_for_status, then RuntimeError on an empty list
GetThermostatIdRaises(resp) == resp.status # 200 \/ ~resp.thermostats

\* answers to GET /runtimeReport: a status and, with 200, the normalized rows
ReportResponses ==
    {r \in [status : HttpStatuses, rows : SeqsUpTo(Row, MaxRows)] :
        r.status # 200 => r.rows = <<>>}

\* a check that lets a 4xx answer through and raises on 5xx only
RaisesOnServerError(resp) == resp.status >= 500

\* fetch_runtime_report: resp.raise_for_status() raises on every 4xx and 5xx
FetchRaises(resp) == resp.status # 200

NoTrace ==
    [probe |-> 0, login |-> 0, user |-> 0, data |-> 0, dataUnauthorized |-> FALSE,
     loginFailed |-> FALSE, probeOk |-> FALSE]

\* an exception left run_ecobee_incremental
Raised(detail) ==
    [kind |-> "raised", ok |-> FALSE, detail |-> detail, added |-> 0, total |-> 0, requests |-> 0]

\* a request of the utility pass raises (connection error, timeout): the
\* login POST, the account lookup and the usage requests are outside any try
HsvRaises ==
    /\ source = "hsv"
    /\ hsvOutcome' = Raised("request failed")
    /\ hsvSeen' = {}
    /\ UNCHANGED hsvFile

EcoInit ==
    /\ ecoPc = "idle"
    /\ ecoTokenFile = NoToken
    /\ ecoToken = NoToken
    /\ ecoFile = NoEcoFile
    /\ ecoOutcome = NoOutcome
    /\ ecoTrace = NoTrace

\* the scheduler calls run_ecobee_incremental: token = load_token(token_file)
EcoStart ==
    /\ source = "ecobee"
    /\ ecoPc \in {"idle", "done"}
    /\ ecoToken' = LoadToken(ecoTokenFile)
    /\ ecoPc' = IF LoadToken(ecoTokenFile) # NoToken THEN "probe" ELSE "login"
    /\ ecoOutcome' = NoOutcome
    /\ ecoTrace' = NoTrace
    /\ UNCHANGED <<ecoTokenFile, ecoFile>>

\* `_ = get_thermostat_id(token)` inside try/except: a failure sets token = None
EcoProbe ==
    /\ source = "ecobee"
    /\ ecoPc = "probe"
    /\ \E resp \in UserResponses :
          /\ IF GetThermostatIdRaises(resp)
             THEN ecoToken' = NoToken /\ ecoPc' = "login"
             ELSE ecoToken' = ecoToken /\ ecoPc' = "user"
          /\ ecoTrace' = [ecoTrace EXCEPT !.probe = @ + 1,
                                          !.probeOk = ~GetThermostatIdRaises(resp)]
    /\ UNCHANGED <<ecoTokenFile, ecoFile, ecoOutcome>>

\* a login whose failure hands back no token instead of raising
EcoLoginReturnsNone ==
    /\ source = "ecobee"
    /\ ecoPc = "login"
    /\ \E t \in 0..MaxTokens :
          /\ ecoPc' = "user"
          /\ ecoToken' = t
          /\ ecoTokenFile' = t
          /\ ecoTrace' = [ecoTrace EXCEPT !.login = @ + 1, !.loginFailed = (t = NoToken)]
    /\ UNCHANGED <<ecoOutcome, ecoFile>>

\* token = extract_access_token(...); save_token(token_file, token)
\* (t = NoToken: the browser login raised)
EcoLogin ==
    /\ source = "ecobee"
    /\ ecoPc = "login"
    /\ \E t \in 0..MaxTokens :
          /\ IF t = NoToken
             THEN /\ ecoPc' = "done"
                  /\ ecoOutcome' = Raised("login failed")
                  /\ UNCHANGED <<ecoToken, ecoTokenFile>>
             ELSE /\ ecoPc' = "user"
                  /\ ecoToken' = t
                  /\ ecoTokenFile' = t
                  /\ UNCHANGED ecoOutcome
          /\ ecoTrace' = [ecoTrace EXCEPT !.login = @ + 1, !.loginFailed = (t = NoToken)]
    /\ UNCHANGED ecoFile

\* thermostat_id = get_thermostat_id(token), outside any try; with test_only the
\* pass returns here
EcoGetThermostatId ==
    /\ source = "ecobee"
    /\ ecoPc = "user"
    /\ \E resp \in UserResponses, test_only \in BOOLEAN :
          IF GetThermostatIdRaises(resp)
          THEN ecoPc' = "done" /\ ecoOutcome' = Raised("thermostat id")
          ELSE IF test_only
               THEN ecoPc' = "done" /\ ecoOutcome' = Returned(TRUE, "ok", 0, 0, 0)
               ELSE ecoPc' = "fetch" /\ UNCHANGED ecoOutcome
    /\ ecoTrace' = [ecoTrace EXCEPT !.user = @ + 1]
    /\ UNCHANGED <<ecoToken, ecoTokenFile, ecoFile>>

\* existing = _load_json(...); new_rows = fetch_runtime_report(...);
\* merged, added = merge_data(existing, new_rows); _save_json(data_file, merged); return
EcoFetchMergeSave ==
    /\ source = "ecobee"
    /\ ecoPc = "fetch"
    /\ \E resp \in ReportResponses :
       \E m \in {eco_merge_data(EcoLoadExisting(ecoFile), resp.rows)} :
          /\ Len(m.rd) <= MaxEcoStored
          /\ ecoTrace' = [ecoTrace EXCEPT !.data = @ + 1,
                                          !.dataUnauthorized = (resp.status = 401)]
          /\ IF FetchRaises(resp)
             THEN /\ ecoOutcome' = Raised("runtime report")
                  /\ UNCHANGED ecoFile
             ELSE \E completes \in BOOLEAN :
                     /\ ecoFile' = EcoSaveJson(m.rd, completes)
                     /\ ecoOutcome' = IF completes
                                      THEN Returned(TRUE, "ok", m.added, Len(m.rd), 0)
                                      ELSE Crashed(0)
    /\ ecoPc' = "done"
    /\ UNCHANGED <<ecoToken, ecoTokenFile>>

---------------------------------------------------------------------------
(* Spec: the passes of one source                                           *)

PassParked ==
    /\ source = "none"
    /\ HsvInit
    /\ EcoInit

PollParked ==
    /\ pollFn = "none"
    /\ pollPc = "idle"
    /\ pollStatus = "none"
    /\ pollCount = 0
    /\ pollBudget = 0
    /\ incIdx = 0
    /\ incLog = <<>>

\* no run is planned
NoCheckpoint == [has |-> FALSE, age |-> 0, parses |-> TRUE]

PlanParked ==
    /\ wFn = "none"
    /\ wPc = "idle"
    /\ wStart = 0
    /\ wEnd = 0
    /\ wChunk = 0
    /\ wCkpt = NoCheckpoint
    /\ wIdx = 0
    /\ wCurEnd = 0
    /\ wWindows = <<>>
    /\ wKept = <<>>
    /\ wAllowed = {}

\* no update is running
NoResult == [kind |-> "none", hsv |-> NoOutcome, ecobee |-> NoOutcome]

UpdateParked ==
    /\ uFn = "none"
    /\ uPc = "idle"
    /\ uResult = NoResult

\* no request is being sent
RetryParked ==
    /\ rFn = "none"
    /\ rPc = "idle"
    /\ rRetries = 0
    /\ rAttempt = 0
    /\ rLast = 0
    /\ rSlept = 0

\* no pass has started
NoSessTrace ==
    [cached |-> 0, probe |-> 0, probeOk |-> FALSE, login |-> 0, loginOk |-> FALSE,
     data |-> 0, sentRejected |-> FALSE]

SessionParked ==
    /\ sFn = "none"
    /\ sPc = "idle"
    /\ sTokenFile = 0
    /\ sHeader = 0
    /\ sRejected = {}
    /\ sTrace = NoSessTrace
    /\ sOutcome = "none"

SeriesParked ==
    /\ gFn = "none"
    /\ gSeries = AbsentSeries
    /\ gBefore = AbsentSeries
    /\ gPayload = <<>>
    /\ gAdded = 0
    /\ gShape = "idle"

PoliteParked ==
    /\ dFn = "none"
    /\ dPc = "done"
    /\ dChunks = 0
    /\ dIndustry = 0
    /\ dChunk = 0
    /\ dLog = <<>>

DiscoverParked ==
    /\ xFn = "none"
    /\ xPc = "done"
    /\ xDaysBack = 0
    /\ xValid = 0
    /\ xInvalid = 0
    /\ xEnd = 0
    /\ xProbes = 0
    /\ xDeepest = 0
    /\ xResult = -1
    /\ xGapped = FALSE
    /\ xPending = 0

\* self._temp = {} of ConfigFlow.__init__: no field entered
NoCredentials == [hsv |-> "", ecobee |-> ""]

NoEntry == [hsv |-> "none", ecobee |-> "none"]

FlowParked ==
    /\ fStep = "none"
    /\ fTemp = NoCredentials
    /\ fHsvOk = FALSE
    /\ fEcoOk = FALSE
    /\ fHsvLast = "none"
    /\ fEcoLast = "none"
    /\ fEntry = NoEntry

\* DataAvailability._cache = {}: no key set; the keys are "hsv_<account>"
\* and "ecobee_<thermostat>"
CacheKeys == {"hsv", "ecobee"}

NoCacheEntry == [set |-> FALSE, max_days |-> 0, total_days |-> 0, at |-> 0]

EmptyCache == [key \in CacheKeys |-> NoCacheEntry]

NoAvailability == [max_days |-> 0, total_days |-> 0]

AvailParked ==
    /\ aFn = "none"
    /\ aPc = "done"
    /\ aClock = 0
    /\ aCache = EmptyCache
    /\ aDays = 0
    /\ aLargestOk = 0
    /\ aMaxDays = 0
    /\ aResult = NoAvailability
    /\ aProbes = 0
    /\ aCurEnd = 0
    /\ aIter = 0

\* the concurrent calls of hsv_test_login explored
LoginTests == {1, 2}

NoTestCredentials == [user |-> "none", good |-> FALSE]

TestParked ==
    /\ tPc = [t \in LoginTests |-> "parked"]
    /\ tCred = [t \in LoginTests |-> NoTestCredentials]
    /\ tSession = [t \in LoginTests |-> "none"]
    /\ tResult = [t \in LoginTests |-> "none"]
    /\ tFile = "none"

\* self._last_collection = None
NoCollection == -1

CollectedSources == {"hsv", "ecobee"}

CollectParked ==
    /\ cNow = 0
    /\ cFirstRefresh = FALSE
    /\ cLast = NoCollection
    /\ cGood = [s \in CollectedSources |-> NoCollection]
    /\ cLookback = 0
    /\ cOutcome = [s \in CollectedSources |-> FALSE]

InitMerge == (InitMergeHsv \/ InitMergeEco) /\ PassParked /\ PollParked /\ PlanParked /\ UpdateParked /\ RetryParked /\ SessionParked /\ SeriesParked /\ PoliteParked /\ DiscoverParked /\ FlowParked /\ AvailParked /\ TestParked /\ CollectParked
NextMerge ==
    \/ MergeHsvCall /\ UNCHANGED <<passVars, pollVars, planVars, updVars, retryVars, sessVars, serVars, polVars, disVars, flowVars, availVars, testVars, collVars>>
    \/ MergeEcoCall /\ UNCHANGED <<passVars, pollVars, planVars, updVars, retryVars, sessVars, serVars, polVars, disVars, flowVars, availVars, testVars, collVars>>
SpecMerge == InitMerge /\ [][NextMerge]_vars

Init ==
    /\ source \in {"hsv", "ecobee"}
    /\ HsvInit
    /\ EcoInit
    /\ MergeParked
    /\ PollParked
    /\ PlanParked
    /\ UpdateParked
    /\ RetryParked
    /\ SessionParked
    /\ SeriesParked
    /\ PoliteParked
    /\ DiscoverParked
    /\ FlowParked
    /\ AvailParked
    /\ TestParked
    /\ CollectParked

\* what a pass of one source leaves alone
HsvFrame == <<source, ecoVars, mergeVars, pollVars, planVars, updVars, retryVars, sessVars, serVars, polVars, disVars, flowVars, availVars, testVars, collVars>>
EcoFrame == <<source, hsvVars, mergeVars, pollVars, planVars, updVars, retryVars, sessVars, serVars, polVars, disVars, flowVars, availVars, testVars, collVars>>

Next ==
    \/ HsvAuthFailed /\ UNCHANGED HsvFrame
    \/ HsvNoAccount /\ UNCHANGED HsvFrame
    \/ HsvTestOnly /\ UNCHANGED HsvFrame
    \/ HsvSync /\ UNCHANGED HsvFrame
    \/ HsvRaises /\ UNCHANGED HsvFrame
    \/ EcoStart /\ UNCHANGED EcoFrame
    \/ EcoProbe /\ UNCHANGED EcoFrame
    \/ EcoLogin /\ UNCHANGED EcoFrame
    \/ EcoGetThermostatId /\ UNCHANGED EcoFrame
    \/ EcoFetchMergeSave /\ UNCHANGED EcoFrame

Spec == Init /\ [][Next]_vars

---------------------------------------------------------------------------
(* The submit/poll loops of the utility portal                              *)

\* the functions that POST /services/secured/utility-usage/poll in a loop
PollFns == {"collect_usage_data", "get_usage_data", "get_hsv_usage_count", "get_hsv_usage"}

\* collect_usage_data: max_retries
max_retries == 30
\* get_usage_data: retries
usage_retries == 30
\* get_hsv_usage_count: retries
count_retries == 10

\* the loop of get_hsv_usage is followed for at most this many re-polls
PollCap == 32

\* data.get("status") of an answer; only collect_usage_data looks at the HTTP status
PollAnswers(fn) ==
    {"PENDING", "COMPLETE"} \cup (IF fn = "collect_usage_data" THEN {"HTTP_ERROR"} ELSE {})

\* the loop counter before the loop: retry_count = 0, retries = 30, retries = 10;
\* get_hsv_usage keeps no counter
InitialCounter(fn) ==
    CASE fn = "collect_usage_data" -> 0
      [] fn = "get_usage_data" -> usage_retries
      [] fn = "get_hsv_usage_count" -> count_retries
      [] OTHER -> 0

\* retry_count += 1, retries -= 1
NextCounter(fn, c) ==
    CASE fn = "collect_usage_data" -> c + 1
      [] fn = "get_hsv_usage" -> c
      [] OTHER -> c - 1

\* collect_usage_data: while data.get("status") != "COMPLETE" and retry_count < max_retries
CollectUsageDataLoops(status, retry_count) == status # "COMPLETE" /\ retry_count < max_retries

\* get_usage_data: while data.get("status") != "COMPLETE" and retries > 0
GetUsageDataLoops(status, retries) == status # "COMPLETE" /\ retries > 0

\* get_hsv_usage_count: while data.get("status") != "COMPLETE" and retries > 0
GetHsvUsageCountLoops(status, retries) == status # "COMPLETE" /\ retries > 0

\* get_hsv_usage: while data.get("status") != "COMPLETE"
GetHsvUsageLoops(status) == status # "COMPLETE"

\* the `while` condition of the loop of fn
LoopCondition(fn, status, c) ==
    CASE fn = "collect_usage_data" -> CollectUsageDataLoops(status, c)
      [] fn = "get_usage_data" -> GetUsageDataLoops(status, c)
      [] fn = "get_hsv_usage_count" -> GetHsvUsageCountLoops(status, c)
      [] OTHER -> GetHsvUsageLoops(status)

\* main: the industries of its `intervals` dict, in order
IncIndustries == <<"ELECTRIC", "GAS", "WATER">>

\* the first POST, before the loop
PollSubmit ==
    /\ pollFn \in PollFns
    /\ pollPc = "idle"
    /\ pollFn = "get_usage_data" => incIdx < Len(IncIndustries)
    /\ \E st \in PollAnswers(pollFn) :
          /\ pollStatus' = st
          /\ pollPc' = IF st = "HTTP_ERROR" THEN "returnedFalse" ELSE "polling"
    /\ pollCount' = 0
    /\ pollBudget' = InitialCounter(pollFn)
    /\ UNCHANGED <<pollFn, incIdx, incLog>>

\* one turn of the loop: sleep, POST again, count
PollAgain ==
    /\ pollPc = "polling"
    /\ LoopCondition(pollFn, pollStatus, pollBudget)
    /\ pollFn = "get_hsv_usage" => pollCount < PollCap
    /\ \E st \in PollAnswers(pollFn) :
          /\ pollStatus' = st
          /\ pollPc' = IF st = "HTTP_ERROR" THEN "returnedFalse" ELSE "polling"
    /\ pollCount' = pollCount + 1
    /\ pollBudget' = NextCounter(pollFn, pollBudget)
    /\ UNCHANGED <<pollFn, incIdx, incLog>>

\* collect_usage_data after its loop, and collect_hsv_data on its result: a job
\* that is not COMPLETE logs "polling timeout" and gives None, and
\* `if not data: return False` ends the pass before save_data
CollectUsageDataReturn ==
    /\ pollFn = "collect_usage_data"
    /\ pollPc = "polling"
    /\ ~LoopCondition(pollFn, pollStatus, pollBudget)
    /\ IF pollStatus # "COMPLETE"
       THEN pollPc' = "returnedFalse"
       ELSE \E empty \in BOOLEAN : pollPc' = IF empty THEN "returnedFalse" ELSE "returnedTrue"
    /\ UNCHANGED <<pollFn, pollStatus, pollCount, pollBudget, incIdx, incLog>>

\* get_hsv_usage_count and get_hsv_usage after their loops: data["data"] is read
\* whatever the status; an answer without that key raises KeyError
CountReturn ==
    /\ pollFn \in {"get_hsv_usage_count", "get_hsv_usage"}
    /\ pollPc = "polling"
    /\ ~LoopCondition(pollFn, pollStatus, pollBudget)
    /\ \E hasData \in BOOLEAN :
          /\ pollStatus = "COMPLETE" => hasData
          /\ pollPc' = IF hasData THEN "returned" ELSE "raised"
    /\ UNCHANGED <<pollFn, pollStatus, pollCount, pollBudget, incIdx, incLog>>

\* main of the command-line incremental scraper, one industry of its loop:
\* get_usage_data returns process_usage_data(data) whatever the status, and main
\* merges what it returns; data["data"] raises KeyError on an answer without that
\* key, which nothing catches
IncProcessMerge ==
    /\ pollFn = "get_usage_data"
    /\ pollPc = "polling"
    /\ ~LoopCondition(pollFn, pollStatus, pollBudget)
    /\ \E hasData \in BOOLEAN :
          /\ pollStatus = "COMPLETE" => hasData
          /\ IF hasData
             THEN /\ incLog' = Append(incLog, [industry |-> IncIndustries[incIdx + 1],
                                               complete |-> pollStatus = "COMPLETE",
                                               result |-> "merged"])
                  /\ incIdx' = incIdx + 1
                  /\ pollPc' = IF incIdx + 1 < Len(IncIndustries) THEN "idle" ELSE "save"
             ELSE /\ pollPc' = "aborted"
                  /\ UNCHANGED <<incIdx, incLog>>
    /\ UNCHANGED <<pollFn, pollStatus, pollCount, pollBudget>>

\* save_data(existing_data), after the loop over the industries
IncSave ==
    /\ pollFn = "get_usage_data"
    /\ pollPc = "save"
    /\ pollPc' = "saved"
    /\ UNCHANGED <<pollFn, pollStatus, pollCount, pollBudget, incIdx, incLog>>

InitPoll ==
    /\ pollFn \in PollFns
    /\ pollPc = "idle"
    /\ pollStatus = "none"
    /\ pollCount = 0
    /\ pollBudget = 0
    /\ incIdx = 0
    /\ incLog = <<>>
    /\ MergeParked
    /\ PassParked
    /\ PlanParked
    /\ UpdateParked
    /\ RetryParked
    /\ SessionParked
    /\ SeriesParked
    /\ PoliteParked
    /\ DiscoverParked
    /\ FlowParked
    /\ AvailParked
    /\ TestParked
    /\ CollectParked

PollFrame == <<mergeVars, passVars, planVars, updVars, retryVars, sessVars, serVars, polVars, disVars, flowVars, availVars, testVars, collVars>>

NextPoll ==
    \/ PollSubmit /\ UNCHANGED PollFrame
    \/ PollAgain /\ UNCHANGED PollFrame
    \/ CollectUsageDataReturn /\ UNCHANGED PollFrame
    \/ CountReturn /\ UNCHANGED PollFrame
    \/ IncProcessMerge /\ UNCHANGED PollFrame
    \/ IncSave /\ UNCHANGED PollFrame

SpecPoll == InitPoll /\ [][NextPoll]_vars

---------------------------------------------------------------------------
(* The date ranges a run requests (SpecWindow).  Dates are day numbers;    *)
(* every date of one run has the time of day of datetime.now(), so all     *)
(* differences are whole days.                                             *)

MaxLookback     == 400   \* largest DATA_PERIOD_DAYS explored
MaxAge          == 40    \* largest age, in days, of the stored checkpoint
MaxFailLookback == 95    \* largest DATA_PERIOD_DAYS explored with failing requests

\* datetime.now()
Today == 1000

EcoMainA == "scrapers/ecobee_scraper.main"
EcoMainB == "utilities_scraper/scrapers/ecobee_scraper.main"
HsvMainA == "scrapers/hsv_scraper.main"
HsvMainB == "utilities_scraper/scrapers/hsv_scraper.main"
EcoIncHA == "run_ecobee_incremental"
HsvIncHA == "run_hsv_incremental"
EcoIncSA == "scrapers/ecobee_scraper_incremental.main"
HsvIncSA == "scrapers/hsv_scraper_incremental.main"

EcoMains     == {EcoMainA, EcoMainB}
HsvMains     == {HsvMainA, HsvMainB}
EcoIncs      == {EcoIncHA, EcoIncSA}
HsvIncs      == {HsvIncHA, HsvIncSA}
PlanFns      == EcoMains \cup HsvMains \cup EcoIncs \cup HsvIncs

\* what a data request can end with: readings, an error other than an
\* authorization rejection, or a 401
Outcomes == {"ok", "error", "unauthorized"}

\* max_chunk_size of the thermostat scrapers
eco_max_chunk_size == 31
eco_max_days       == 30
\* max_chunk_size of the portal scraper, and the positive values that
\* test_hsv_max_window can return (its results 0 and -60 are taken up with the
\* availability check, SpecAvail)
hsv_max_chunk_size == 360
HsvMaxWindows      == {90, 270, 360}

ChunkSizes(fn) ==
    CASE fn = EcoMainA -> {eco_max_chunk_size}
      [] fn = EcoMainB -> {eco_max_days}
      [] fn = HsvMainA -> {hsv_max_chunk_size}
      [] fn = HsvMainB -> HsvMaxWindows
      [] OTHER         -> {0}

\* overlap_days, and the lookback of a run that finds no checkpoint
OverlapDaysEco     == 2
OverlapDaysHsv     == 3
OverlapDaysScript  == 1
FreshDaysEco       == 7
FreshDaysHsv       == 30
FreshDaysScript    == 7

OverlapDays(fn) ==
    CASE fn = EcoIncHA -> OverlapDaysEco
      [] fn = HsvIncHA -> OverlapDaysHsv
      [] OTHER         -> OverlapDaysScript

FreshDays(fn) ==
    CASE fn = EcoIncHA -> FreshDaysEco
      [] fn = HsvIncHA -> FreshDaysHsv
      [] OTHER         -> FreshDaysScript

Max2(a, b) == IF a >= b THEN a ELSE b

\* one request: the range [s, e] passed to the fetch function, the series it
\* is for and how it ended
Window(s, e, of, out) == [s |-> s, e |-> e, of |-> of, out |-> out]

\* a start_date taken from the stored checkpoint whether one exists or not
CheckpointStart(fn, ckpt) == (Today - ckpt.age) - OverlapDays(fn)

\* start_date of an incremental run: the checkpoint less the overlap, or the
\* fresh lookback when nothing is stored or the stored date does not parse
IncrementalStart(fn, ckpt) ==
    IF ckpt.has /\ ckpt.parses
    THEN (Today - ckpt.age) - OverlapDays(fn)
    ELSE Today - FreshDays(fn)

\* the instants a request of a full-history main asks the source for, as
\* [lo, hi]: the thermostat API is sent startDate and endDate as calendar days
\* with intervals 0..287, so it returns the whole end day; the portal is sent
\* the two datetimes as millisecond instants
RequestedLo(w) == w.s
RequestedHi(w) == IF w.of = "THERMOSTAT" THEN w.e + 1 ELSE w.e

InitPlan ==
    /\ wFn \in PlanFns
    /\ wPc = "start"
    /\ wEnd = Today
    /\ wAllowed \in {{"ok"}, Outcomes}
    /\ \/ /\ wFn \in EcoMains \cup HsvMains
          /\ \E days \in 1..MaxLookback :
                /\ wAllowed = Outcomes => days <= MaxFailLookback
                /\ wStart = Today - days
          /\ wChunk \in ChunkSizes(wFn)
          /\ wCkpt = NoCheckpoint
       \/ /\ wFn \in EcoIncs \cup HsvIncs
          /\ wCkpt \in [has : BOOLEAN, age : 0..MaxAge, parses : BOOLEAN]
          /\ ~wCkpt.has => (wCkpt.age = 0 /\ wCkpt.parses)
          \* the scripts read back the datetime they wrote themselves
          /\ wFn \in {EcoIncSA, HsvIncSA} => wCkpt.parses
          /\ wStart = IncrementalStart(wFn, wCkpt)
          /\ wChunk = 0
    /\ wIdx = 0
    /\ wCurEnd = wEnd
    /\ wWindows = <<>>
    /\ wKept = <<>>
    /\ MergeParked
    /\ PassParked
    /\ PollParked
    /\ UpdateParked
    /\ RetryParked
    /\ SessionParked
    /\ SeriesParked
    /\ PoliteParked
    /\ DiscoverParked
    /\ FlowParked
    /\ AvailParked
    /\ TestParked
    /\ CollectParked

\* ---- the thermostat scrapers' main and fetch_data_in_chunks

\* days_to_fetch <= max_chunk_size: one request for the whole range
EcoMainSingle ==
    /\ wFn \in EcoMains
    /\ wPc = "start"
    /\ (wEnd - wStart) <= wChunk
    /\ \E out \in wAllowed :
          /\ wWindows' = Append(wWindows, Window(wStart, wEnd, "THERMOSTAT", out))
          /\ wKept' = IF out = "ok" THEN <<Window(wStart, wEnd, "THERMOSTAT", out)>> ELSE wKept
          /\ wPc' = IF out = "ok" THEN "done" ELSE "raised"
    /\ UNCHANGED <<wFn, wStart, wEnd, wChunk, wCkpt, wIdx, wCurEnd, wAllowed>>

\* otherwise main calls fetch_data_in_chunks: current_end = end_date
EcoMainChunked ==
    /\ wFn \in EcoMains
    /\ wPc = "start"
    /\ (wEnd - wStart) > wChunk
    /\ wCurEnd' = wEnd
    /\ wPc' = "loop"
    /\ UNCHANGED <<wFn, wStart, wEnd, wChunk, wCkpt, wIdx, wWindows, wKept, wAllowed>>

\* a window one day wider than the one the loop takes
ChunkStartWide(current_end, chunk_size, start_date) ==
    Max2(current_end - chunk_size, start_date)

\* current_start = max(current_end - timedelta(days=chunk_size - 1), start_date)
ChunkStart(current_end, chunk_size, start_date) ==
    Max2(current_end - (chunk_size - 1), start_date)

\* does the except clause of the chunk loop raise again
ChunkLoopRaises(fn, out) == fn = EcoMainA /\ out = "unauthorized"

\* one pass of the body of `while current_end > start_date`
ChunkRequest ==
    /\ wFn \in EcoMains
    /\ wPc = "loop"
    /\ wCurEnd > wStart
    /\ \E out \in wAllowed :
        \E current_start \in {ChunkStart(wCurEnd, wChunk, wStart)} :
          /\ wWindows' = Append(wWindows, Window(current_start, wCurEnd, "THERMOSTAT", out))
          /\ wKept' = IF out = "ok"
                      THEN <<Window(current_start, wCurEnd, "THERMOSTAT", out)>> \o wKept
                      ELSE wKept
          /\ IF ChunkLoopRaises(wFn, out)
             THEN wPc' = "raised" /\ wCurEnd' = wCurEnd
             ELSE wPc' = "loop" /\ wCurEnd' = current_start - 1
    /\ UNCHANGED <<wFn, wStart, wEnd, wChunk, wCkpt, wIdx, wAllowed>>

\* the loop ends, fetch_data_in_chunks returns all_data and main saves it
ChunkReturn ==
    /\ wFn \in EcoMains
    /\ wPc = "loop"
    /\ ~(wCurEnd > wStart)
    /\ wPc' = "done"
    /\ UNCHANGED <<wFn, wStart, wEnd, wChunk, wCkpt, wIdx, wCurEnd, wWindows, wKept, wAllowed>>

\* ---- the portal scrapers' main

\* days_to_fetch <= max_chunk_size: one request per industry; get_usage_data
\* is called outside any try, so a failed request ends main before save_data
HsvMainSingle ==
    /\ wFn \in HsvMains
    /\ wPc = "start"
    /\ (wEnd - wStart) <= wChunk
    /\ wIdx < Len(IncIndustries)
    /\ \E out \in wAllowed :
          /\ wWindows' = Append(wWindows, Window(wStart, wEnd, IncIndustries[wIdx + 1], out))
          /\ wKept' = IF out = "ok"
                      THEN Append(wKept, Window(wStart, wEnd, IncIndustries[wIdx + 1], out))
                      ELSE wKept
          /\ IF out = "ok"
             THEN wPc' = "start" /\ wIdx' = wIdx + 1
             ELSE wPc' = "raised" /\ wIdx' = wIdx
    /\ UNCHANGED <<wFn, wStart, wEnd, wChunk, wCkpt, wCurEnd, wAllowed>>

\* otherwise, for each industry: current_end = end_date, then the chunk loop
HsvMainChunked ==
    /\ wFn \in HsvMains
    /\ wPc = "start"
    /\ (wEnd - wStart) > wChunk
    /\ wCurEnd' = wEnd
    /\ wPc' = "loop"
    /\ UNCHANGED <<wFn, wStart, wEnd, wChunk, wCkpt, wIdx, wWindows, wKept, wAllowed>>

HsvChunkRequest ==
    /\ wFn \in HsvMains
    /\ wPc = "loop"
    /\ wIdx < Len(IncIndustries)
    /\ wCurEnd > wStart
    /\ \E out \in wAllowed :
        \E current_start \in {ChunkStart(wCurEnd, wChunk, wStart)} :
          /\ wWindows' = Append(wWindows, Window(current_start, wCurEnd, IncIndustries[wIdx + 1], out))
          /\ wKept' = IF out = "ok"
                      THEN <<Window(current_start, wCurEnd, IncIndustries[wIdx + 1], out)>> \o wKept
                      ELSE wKept
          /\ IF out = "ok"
             THEN wPc' = "loop" /\ wCurEnd' = current_start - 1
             ELSE wPc' = "raised" /\ wCurEnd' = wCurEnd
    /\ UNCHANGED <<wFn, wStart, wEnd, wChunk, wCkpt, wIdx, wAllowed>>

\* the loop of one industry ends; the next industry starts from end_date again
HsvNextIndustry ==
    /\ wFn \in HsvMains
    /\ wPc = "loop"
    /\ wIdx < Len(IncIndustries)
    /\ ~(wCurEnd > wStart)
    /\ wIdx' = wIdx + 1
    /\ wCurEnd' = wEnd
    /\ UNCHANGED <<wFn, wPc, wStart, wEnd, wChunk, wCkpt, wWindows, wKept, wAllowed>>

\* print_summary and save_data after the last industry
HsvMainSave ==
    /\ wFn \in HsvMains
    /\ wPc \in {"start", "loop"}
    /\ wIdx = Len(IncIndustries)
    /\ wPc' = "done"
    /\ UNCHANGED <<wFn, wStart, wEnd, wChunk, wCkpt, wIdx, wCurEnd, wWindows, wKept, wAllowed>>

\* ---- the incremental runs

\* the thermostat run: one request over [start_date, now]; a failed request
\* raises
EcoIncrementalRequest ==
    /\ wFn \in EcoIncs
    /\ wPc = "start"
    /\ \E out \in wAllowed :
          /\ wWindows' = Append(wWindows, Window(wStart, wEnd, "THERMOSTAT", out))
          /\ wKept' = IF out = "ok" THEN <<Window(wStart, wEnd, "THERMOSTAT", out)>> ELSE wKept
          /\ wPc' = IF out = "ok" THEN "done" ELSE "raised"
    /\ UNCHANGED <<wFn, wStart, wEnd, wChunk, wCkpt, wIdx, wCurEnd, wAllowed>>

\* the portal run: one request per industry over [start_date, now]; in
\* run_hsv_incremental a failed request yields no readings and the loop goes
\* on, in the script it raises
HsvIncrementalRequest ==
    /\ wFn \in HsvIncs
    /\ wPc = "start"
    /\ wIdx < Len(IncIndustries)
    /\ \E out \in wAllowed :
          /\ wWindows' = Append(wWindows, Window(wStart, wEnd, IncIndustries[wIdx + 1], out))
          /\ wKept' = IF out = "ok"
                      THEN Append(wKept, Window(wStart, wEnd, IncIndustries[wIdx + 1], out))
                      ELSE wKept
          /\ IF out = "ok" \/ wFn = HsvIncHA
             THEN wPc' = "start" /\ wIdx' = wIdx + 1
             ELSE wPc' = "raised" /\ wIdx' = wIdx
    /\ UNCHANGED <<wFn, wStart, wEnd, wChunk, wCkpt, wCurEnd, wAllowed>>

HsvIncrementalSave ==
    /\ wFn \in HsvIncs
    /\ wPc = "start"
    /\ wIdx = Len(IncIndustries)
    /\ wPc' = "done"
    /\ UNCHANGED <<wFn, wStart, wEnd, wChunk, wCkpt, wIdx, wCurEnd, wWindows, wKept, wAllowed>>

PlanFrame == <<mergeVars, passVars, pollVars, updVars, retryVars, sessVars, serVars, polVars, disVars, flowVars, availVars, testVars, collVars>>

NextPlan ==
    \/ EcoMainSingle /\ UNCHANGED PlanFrame
    \/ EcoMainChunked /\ UNCHANGED PlanFrame
    \/ ChunkRequest /\ UNCHANGED PlanFrame
    \/ ChunkReturn /\ UNCHANGED PlanFrame
    \/ HsvMainSingle /\ UNCHANGED PlanFrame
    \/ HsvMainChunked /\ UNCHANGED PlanFrame
    \/ HsvChunkRequest /\ UNCHANGED PlanFrame
    \/ HsvNextIndustry /\ UNCHANGED PlanFrame
    \/ HsvMainSave /\ UNCHANGED PlanFrame
    \/ EcoIncrementalRequest /\ UNCHANGED PlanFrame
    \/ HsvIncrementalRequest /\ UNCHANGED PlanFrame
    \/ HsvIncrementalSave /\ UNCHANGED PlanFrame

SpecWindow == InitPlan /\ [][NextPlan]_vars

---------------------------------------------------------------------------
(* One update of a coordinator (SpecUpdate): _async_update_data of          *)
(* coordinator.py runs the two incremental passes, the one of sensor.py     *)
(* runs the two collectors and then reads the data files                    *)

CoordinatorUpdate == "coordinator._async_update_data"
SensorUpdate      == "sensor._async_update_data"
UpdateFns         == {CoordinatorUpdate, SensorUpdate}

\* raise UpdateFailed(str(e))
UpdateFailed == [kind |-> "UpdateFailed", hsv |-> NoOutcome, ecobee |-> NoOutcome]

\* return {"hsv": hsv_result, "ecobee": ecobee_result}
Delivered(hsv_result, ecobee_result) ==
    [kind |-> "data", hsv |-> hsv_result, ecobee |-> ecobee_result]

\* what a collector of sensor.py ends with: True, False or an exception
CollectorOutcomes ==
    {Returned(TRUE, "ok", 0, 0, 0), Returned(FALSE, "collection failed", 0, 0, 0),
     Raised("collector")}

InitUpdate ==
    /\ uFn \in UpdateFns
    /\ uPc \in (IF uFn = SensorUpdate THEN {"first", "hsv"} ELSE {"hsv"})
    /\ uResult = NoResult
    /\ source = "hsv"
    /\ HsvInit
    /\ EcoInit
    /\ MergeParked
    /\ PollParked
    /\ PlanParked
    /\ RetryParked
    /\ SessionParked
    /\ SeriesParked
    /\ PoliteParked
    /\ DiscoverParked
    /\ FlowParked
    /\ AvailParked
    /\ TestParked
    /\ CollectParked

\* hsv_result = await ... run_hsv_incremental(..., False): an exception ends
\* the update with UpdateFailed, before the thermostat pass is called
CoordinatorHsvPass ==
    /\ uFn = CoordinatorUpdate
    /\ uPc = "hsv"
    /\ HsvAuthFailed \/ HsvNoAccount \/ HsvSync \/ HsvRaises
    /\ IF hsvOutcome'.kind = "returned"
       THEN uPc' = "ecobee" /\ source' = "ecobee" /\ uResult' = uResult
       ELSE /\ uPc' = "done"
            /\ source' = source
            /\ uResult' = IF hsvOutcome'.kind = "raised" THEN UpdateFailed ELSE uResult
    /\ UNCHANGED <<uFn, ecoVars>>

\* ecobee_result = await ... run_ecobee_incremental(..., True, False), one
\* request at a time; its return ends the update with the two results, its
\* exception with UpdateFailed
CoordinatorEcoPass ==
    /\ uFn = CoordinatorUpdate
    /\ uPc = "ecobee"
    /\ \/ ecoPc = "idle" /\ EcoStart
       \/ EcoProbe
       \/ EcoLogin
       \/ EcoGetThermostatId /\ ~(ecoPc' = "done" /\ ecoOutcome'.kind = "returned")
       \/ EcoFetchMergeSave
    /\ IF ecoPc' = "done"
       THEN /\ uPc' = "done"
            /\ uResult' = CASE ecoOutcome'.kind = "returned" -> Delivered(hsvOutcome, ecoOutcome')
                            [] ecoOutcome'.kind = "raised"   -> UpdateFailed
                            [] OTHER                         -> uResult
       ELSE UNCHANGED <<uPc, uResult>>
    /\ UNCHANGED <<uFn, source, hsvVars>>

\* the first refresh of sensor.py reads the data files without collecting
SensorFirstRefresh ==
    /\ uFn = SensorUpdate
    /\ uPc = "first"
    /\ uPc' = "done"
    /\ uResult' = Delivered(NoOutcome, NoOutcome)
    /\ UNCHANGED <<uFn, passVars>>

\* _collect_data: collect_hsv_data inside its own try
SensorCollectHsv ==
    /\ uFn = SensorUpdate
    /\ uPc = "hsv"
    /\ hsvOutcome' \in CollectorOutcomes
    /\ uPc' = "ecobee"
    /\ UNCHANGED <<uFn, uResult, source, hsvFile, hsvSeen, ecoVars>>

\* a thermostat collector started together with the portal collector instead
\* of after it
SensorCollectEcoGathered ==
    /\ uFn = SensorUpdate
    /\ uPc \in {"hsv", "ecobee"}
    /\ ecoOutcome' \in CollectorOutcomes
    /\ uPc' = IF uPc = "hsv" THEN "hsv" ELSE "process"
    /\ UNCHANGED <<uFn, uResult, source, hsvVars, ecoPc, ecoTokenFile, ecoToken, ecoFile, ecoTrace>>

\* _collect_data: collect_ecobee_data inside its own try
SensorCollectEco ==
    /\ uFn = SensorUpdate
    /\ uPc = "ecobee"
    /\ ecoOutcome' \in CollectorOutcomes
    /\ uPc' = "process"
    /\ UNCHANGED <<uFn, uResult, source, hsvVars, ecoPc, ecoTokenFile, ecoToken, ecoFile, ecoTrace>>

\* what _process_latest_data hands on for a source: the data its collector
\* left in the file, nothing new when the collector raised
Processed(outcome) == IF outcome.kind = "raised" THEN NoOutcome ELSE outcome

\* return await self._process_latest_data(): each file inside its own try
SensorProcess ==
    /\ uFn = SensorUpdate
    /\ uPc = "process"
    /\ uPc' = "done"
    /\ uResult' = Delivered(Processed(hsvOutcome), Processed(ecoOutcome))
    /\ UNCHANGED <<uFn, passVars>>

UpdateFrame == <<mergeVars, pollVars, planVars, retryVars, sessVars, serVars, polVars, disVars, flowVars, availVars, testVars, collVars>>

NextUpdate ==
    \/ CoordinatorHsvPass /\ UNCHANGED UpdateFrame
    \/ CoordinatorEcoPass /\ UNCHANGED UpdateFrame
    \/ SensorFirstRefresh /\ UNCHANGED UpdateFrame
    \/ SensorCollectHsv /\ UNCHANGED UpdateFrame
    \/ SensorCollectEco /\ UNCHANGED UpdateFrame
    \/ SensorProcess /\ UNCHANGED UpdateFrame

SpecUpdate == InitUpdate /\ [][NextUpdate]_vars

---------------------------------------------------------------------------
(* One runtime-report request of the thermostat API (SpecRetry)             *)

MaxRetries == 4          \* largest value of the parameter retries explored

GetThermostatDataA == "scrapers/ecobee_scraper.get_thermostat_data"
GetThermostatDataB == "scrapers/ecobee_scraper_incremental.get_thermostat_data"
FetchRuntimeReport == "fetch_runtime_report"
RetryFns           == {GetThermostatDataA, GetThermostatDataB, FetchRuntimeReport}

\* get_thermostat_data(..., retries=3, delay=5); `for attempt in range(3)`
default_retries == 3
retry_delay     == 5

\* the statuses an answer can carry
AnswerStatuses == {200, 400, 401, 429, 500, 502, 503, 504}

\* the loop of get_thermostat_data sleeps and sends again only on
\* `e.response.status_code == 500 and attempt < retries - 1`, attempt being
\* the number of requests sent before this one
RetriesAfter(status, attempt, retries) == status = 500 /\ attempt < retries - 1

InitRetry ==
    /\ rFn \in RetryFns
    /\ rPc = "send"
    \* fetch_runtime_report has no loop: it sends the request once
    /\ rRetries \in CASE rFn = GetThermostatDataA -> 1..MaxRetries
                      [] rFn = GetThermostatDataB -> {default_retries}
                      [] OTHER                    -> {1}
    /\ rAttempt = 0
    /\ rLast = 0
    /\ rSlept = 0
    /\ MergeParked
    /\ PassParked
    /\ PollParked
    /\ PlanParked
    /\ UpdateParked
    /\ SessionParked
    /\ SeriesParked
    /\ PoliteParked
    /\ DiscoverParked
    /\ FlowParked
    /\ AvailParked
    /\ TestParked
    /\ CollectParked

\* one pass of `for attempt in range(retries)`: requests.get, raise_for_status,
\* then return, sleep and go on, or raise
GetThermostatDataAttempt ==
    /\ rFn \in {GetThermostatDataA, GetThermostatDataB}
    /\ rPc = "send"
    /\ \E status \in AnswerStatuses :
          /\ rLast' = status
          /\ rAttempt' = rAttempt + 1
          /\ IF status = 200
             THEN rPc' = "returned" /\ rSlept' = rSlept
             ELSE IF RetriesAfter(status, rAttempt, rRetries)
                  THEN rPc' = "send" /\ rSlept' = rSlept + retry_delay
                  ELSE rPc' = "raised" /\ rSlept' = rSlept
    /\ UNCHANGED <<rFn, rRetries>>

\* fetch_runtime_report: one requests.get, raise_for_status
FetchRuntimeReportAttempt ==
    /\ rFn = FetchRuntimeReport
    /\ rPc = "send"
    /\ \E status \in AnswerStatuses :
          /\ rLast' = status
          /\ rAttempt' = rAttempt + 1
          /\ rPc' = IF status = 200 THEN "returned" ELSE "raised"
    /\ UNCHANGED <<rFn, rRetries, rSlept>>

RetryFrame == <<mergeVars, passVars, pollVars, planVars, updVars, sessVars, serVars, polVars, disVars, flowVars, availVars, testVars, collVars>>

NextRetry ==
    \/ GetThermostatDataAttempt /\ UNCHANGED RetryFrame
    \/ FetchRuntimeReportAttempt /\ UNCHANGED RetryFrame

SpecRetry == InitRetry /\ [][NextRetry]_vars

---------------------------------------------------------------------------
(* Properties of merge_data (SpecMerge)                                     *)

\* the dedup keys of a reading list
Keys(rd) == {Timestamp(rd[k]) : k \in 1..Len(rd)}

\* key(i) <= key(i+1) for all adjacent pairs
IsSorted(rd) == \A k \in 1..(Len(rd) - 1) : SortKey(rd[k]) <= SortKey(rd[k + 1])

EcoIsSorted(rd) == \A k \in 1..(Len(rd) - 1) : RowLeq(rd[k], rd[k + 1])

\* the reading list of series <<industry, interval>> (empty when it does not exist)
SeriesAt(data, k) == data[k[1]].iv[k[2]].rd

\* C1: merging the same payload a second time returns an added count of 0 and
\* leaves every series exactly as the first merge left it
C1_IdempotentMerge ==
    [][(mStep = 1 /\ mStep' = 2)
          => (mAdded' = 0 /\ mExisting' = mExisting /\ eExisting' = eExisting)]_vars

\* C2: a merge makes each series longer by exactly the number of payload keys
\* that were not stored before it, whether or not the series or its industry
\* existed before
C2_DedupCorrectness ==
    [][(mFn = "hsv" /\ mStep = 0 /\ mStep' = 1)
          => \A k \in IndustrySet \X Intervals :
                Len(SeriesAt(mExisting', k))
                    = Len(SeriesAt(mExisting, k))
                        + Cardinality(Keys(SeriesAt(mPayload, k)) \ Keys(SeriesAt(mExisting, k)))]_vars

\* C3: after a merge, on every path of merge_data, every series is in ascending
\* key order
C3_SortInvariant ==
    mStep >= 1 =>
        /\ \A k \in IndustrySet \X Intervals : IsSorted(SeriesAt(mExisting, k))
        /\ EcoIsSorted(eExisting)

---------------------------------------------------------------------------
(* Properties of the passes (Spec)                                          *)

\* no two readings of the list carry the same timestamp
NoDuplicateTimestamps(rd) ==
    \A a, b \in 1..Len(rd) :
        (a # b /\ Timestamp(rd[a]) # NoTs) => Timestamp(rd[a]) # Timestamp(rd[b])

\* no two rows of the list carry the same date and time
NoDuplicateDateTimes(rd) ==
    \A a, b \in 1..Len(rd) :
        a # b => <<rd[a].date, rd[a].time>> # <<rd[b].date, rd[b].time>>

\* C4: whatever passes ran, no series of a data file holds two readings with the
\* same timestamp, and the thermostat file holds no two rows with the same date
\* and time
C4_NoDuplicateKeys ==
    /\ \A k \in IndustrySet \X Intervals : NoDuplicateTimestamps(SeriesAt(LoadExisting(hsvFile), k))
    /\ NoDuplicateDateTimes(EcoLoadExisting(ecoFile))


\* the checkpoint of the utility data file, as a pass reads it at its start
\* (NoTs for a series that gives none)
HsvCheckpoint(file) == ComputeLastTimestamps(LoadExisting(file))

\* `last = existing["readings"][-1]`, last.get("date"): 0 without readings
EcoLastDate(rd) == IF rd = <<>> THEN 0 ELSE rd[Len(rd)].date

\* the checkpoint of the thermostat data file, as a pass reads it at its start
EcoCheckpoint(file) == EcoLastDate(EcoLoadExisting(file))

\* C5: a pass that returns ok leaves, for every series, a checkpoint that is not
\* below the one the data file gave before the pass
C5_CheckpointMonotonic ==
    [][/\ hsvOutcome'.ok =>
             \A i \in IndustrySet, j \in Intervals :
                 HsvCheckpoint(hsvFile)[i][j] <= HsvCheckpoint(hsvFile')[i][j]
       /\ ecoOutcome'.ok => EcoCheckpoint(ecoFile) <= EcoCheckpoint(ecoFile')]_vars

\* a pass over a data file that already had a checkpoint fetched, returned ok
\* and added nothing
C5_Witness ==
    \/ /\ hsvOutcome.ok
       /\ hsvOutcome.added = 0
       /\ hsvOutcome.total > 0
       /\ HsvCheckpoint(hsvFile)["electric"]["HOURLY"] # NoTs
    \/ /\ ecoOutcome.ok
       /\ ecoOutcome.added = 0
       /\ ecoOutcome.total > 0
       /\ EcoCheckpoint(ecoFile) # 0

\* C6: a data file that exists is always a complete document, whatever happened
\* while a pass was persisting
C6_AtomicPersistence ==
    /\ hsvFile.exists => hsvFile.parses
    /\ ecoFile.exists => ecoFile.parses

\* C7: every reading a data file holds is still in it after every step of every
\* pass
C7_AppendOnly ==
    [][/\ \A k \in IndustrySet \X Intervals :
             Range(SeriesAt(hsvFile.data, k)) \subseteq Range(SeriesAt(hsvFile'.data, k))
       /\ Range(ecoFile.rd) \subseteq Range(ecoFile'.rd)]_vars

---------------------------------------------------------------------------
(* Properties of the poll loops (SpecPoll)                                  *)

\* C9: no loop re-polls a job more often than its retry count: 30 for the usage
\* fetches, 10 for the availability counts
C9_BoundedPolling ==
    pollCount <= (IF pollFn \in {"get_hsv_usage_count", "get_hsv_usage"}
                  THEN count_retries ELSE max_retries)

\* C10: a job that never reached COMPLETE does not abort the pass, and the
\* industry it was fetched for is recorded as skipped, not merged
C10_PollTimeoutSkipsWindow ==
    /\ pollPc # "aborted"
    /\ \A k \in 1..Len(incLog) : ~incLog[k].complete => incLog[k].result = "skipped"

---------------------------------------------------------------------------
(* Properties of the requested date ranges (SpecWindow)                     *)

\* the run took the chunked path and came to its end
ChunkedRunDone == wFn \in EcoMains \cup HsvMains /\ wPc = "done" /\ (wEnd - wStart) > wChunk

\* the requests made for one series, in the order they were made
WindowsOf(of) == SelectSeq(wWindows, LAMBDA w : w.of = of)

SeriesRequested == {wWindows[k].of : k \in 1..Len(wWindows)}

\* the oldest request of the series begins at start_date
BeginsAtStart(ws) == RequestedLo(ws[Len(ws)]) = wStart

\* no instant between two consecutive requests is left unrequested
NoGapBetween(ws) == \A k \in 1..(Len(ws) - 1) : RequestedHi(ws[k + 1]) >= RequestedLo(ws[k])

\* C11: at the end of a chunked fetch the windows requested for a series
\* begin at start_date and leave no gap between consecutive windows, in the
\* units the source is queried in
C11_WindowCoverage ==
    ChunkedRunDone =>
        \A of \in SeriesRequested :
            BeginsAtStart(WindowsOf(of)) /\ NoGapBetween(WindowsOf(of))

\* the largest range one request to the source may span, in days
MaxRequestWindow(of) == IF of = "THERMOSTAT" THEN eco_max_chunk_size ELSE hsv_max_chunk_size

\* C12: every requested date range has start <= end and spans no more than
\* the maximum request window of its source, whatever the age of the checkpoint
C12_WindowBound ==
    \A k \in 1..Len(wWindows) :
        /\ wWindows[k].s <= wWindows[k].e
        /\ wWindows[k].e - wWindows[k].s <= MaxRequestWindow(wWindows[k].of)

\* ceil(a / b)
CeilDiv(a, b) == (a + b - 1) \div b

\* the days one request spans in the units of its source: calendar days, both
\* ends included (thermostat), or the days between the two instants (portal)
SpanDays(w) == RequestedHi(w) - RequestedLo(w)

\* C13: a chunked fetch over L days with chunk size W (L > W) requests, for
\* each series, exactly ceil(L/W) windows of at most W days each, from the
\* newest to the oldest
C13_ChunkCount ==
    ChunkedRunDone =>
        \A of \in SeriesRequested :
            /\ Len(WindowsOf(of)) = CeilDiv(wEnd - wStart, wChunk)
            /\ \A k \in 1..Len(WindowsOf(of)) : SpanDays(WindowsOf(of)[k]) <= wChunk
            /\ \A k \in 1..(Len(WindowsOf(of)) - 1) :
                  WindowsOf(of)[k + 1].e < WindowsOf(of)[k].s

\* a 400-day lookback fetched by the 30-day chunk loop in 14 windows
C13_Witness ==
    /\ ChunkedRunDone
    /\ wFn = EcoMainB
    /\ wEnd - wStart = 400
    /\ wChunk = 30
    /\ Len(wWindows) = 14

\* an incremental run that found no stored checkpoint came to its end
FreshRunDone == wFn \in EcoIncs \cup HsvIncs /\ ~wCkpt.has /\ wPc = "done"

\* every series of the source was requested exactly once, over [now - days, now]
OneWindowBack(days) ==
    /\ SeriesRequested = (IF wFn \in EcoIncs THEN {"THERMOSTAT"} ELSE Range(IncIndustries))
    /\ \A of \in SeriesRequested :
          /\ Len(WindowsOf(of)) = 1
          /\ WindowsOf(of)[1].s = Today - days
          /\ WindowsOf(of)[1].e = Today

\* C14 as stated: a fresh run requests the one window [now - 7 days, now]
C14_FreshSevenDays == FreshRunDone => OneWindowBack(7)

\* C14: a run that finds no checkpoint requests, for each series of its
\* source, exactly one window [now - lookback, now]; the lookback is 30 days
\* in run_hsv_incremental and 7 days in the other incremental runs
C14_FreshSync ==
    FreshRunDone => OneWindowBack(IF wFn = HsvIncHA THEN 30 ELSE 7)

C14_Witness ==
    /\ FreshRunDone
    /\ wFn = HsvIncHA
    /\ Len(wWindows) = 3
    /\ wWindows[3] = Window(Today - 30, Today, "WATER", "ok")

\* the run is one of the full-history mains on its chunked path
ChunkedRun == wFn \in EcoMains \cup HsvMains /\ (wEnd - wStart) > wChunk

\* C19: in a chunked fetch a request that fails with an error other than an
\* authorization rejection does not end the run, and at the end of the run the
\* result holds the windows that succeeded
C19_WindowIsolation ==
    ChunkedRun =>
        /\ wPc = "raised" => wWindows[Len(wWindows)].out # "error"
        /\ wPc = "done" =>
              Range(wKept) = {wWindows[k] : k \in {j \in 1..Len(wWindows) : wWindows[j].out = "ok"}}

---------------------------------------------------------------------------
(* Properties of an incremental merge (SpecMerge)                           *)

\* the checkpoint of a stored utility series: the timestamp of its last reading
SeriesCheckpoint(rd) == Timestamp(rd[Len(rd)])

\* the positions of the payload whose reading lies after the checkpoint
AfterCheckpoint(rd, new) == {k \in 1..Len(new) : Timestamp(new[k]) > SeriesCheckpoint(rd)}

\* the stored series is in ascending order and the fetched list is made of
\* readings already stored, as they are stored, and of readings after the
\* checkpoint with a timestamp each
IncrementalFetch(rd, new) ==
    /\ rd # <<>>
    /\ IsSorted(rd)
    /\ SeriesCheckpoint(rd) # NoTs
    /\ \A k \in 1..Len(new) : new[k] \in Range(rd) \/ k \in AfterCheckpoint(rd, new)
    /\ \A a, b \in AfterCheckpoint(rd, new) : a # b => Timestamp(new[a]) # Timestamp(new[b])

\* the same for thermostat rows, ordered by date and time
RowAfter(r, last) == r.date > last.date \/ (r.date = last.date /\ r.time > last.time)

EcoAfterCheckpoint(rd, new) == {k \in 1..Len(new) : RowAfter(new[k], rd[Len(rd)])}

EcoIncrementalFetch(rd, new) ==
    /\ rd # <<>>
    /\ \A k \in 1..Len(new) : new[k] \in Range(rd) \/ k \in EcoAfterCheckpoint(rd, new)
    /\ \A a, b \in EcoAfterCheckpoint(rd, new) :
          a # b => <<new[a].date, new[a].time>> # <<new[b].date, new[b].time>>

\* C15: merging a fetched list that holds readings already stored and k
\* readings after the checkpoint returns an added count of exactly k
C15_IncrementalAdded ==
    [][/\ (mFn = "hsv" /\ mStep = 0 /\ mStep' = 1) =>
            \A k \in IndustrySet \X Intervals :
                (SeriesAt(mPayload, k) # <<>>
                    /\ IncrementalFetch(SeriesAt(mExisting, k), SeriesAt(mPayload, k)))
                => mAdded' = Cardinality(AfterCheckpoint(SeriesAt(mExisting, k),
                                                         SeriesAt(mPayload, k)))
       /\ (mFn = "ecobee" /\ mStep = 0 /\ mStep' = 1 /\ EcoIncrementalFetch(eExisting, ePayload))
            => mAdded' = Cardinality(EcoAfterCheckpoint(eExisting, ePayload))]_vars

---------------------------------------------------------------------------
(* Properties of a failed pass (Spec)                                       *)

\* C16: a pass whose authentication attempt fails ends with a failure
\* outcome, sends no further request for its source in that pass and leaves
\* the data file as it was
C16_AuthFailureIsTerminal ==
    [][/\ (hsvOutcome' # hsvOutcome /\ hsvOutcome'.detail = "authentication failed") =>
             /\ ~hsvOutcome'.ok
             /\ hsvOutcome'.requests = 0
             /\ hsvFile' = hsvFile
       /\ ecoTrace'.loginFailed =>
             /\ ecoPc' = "done"
             /\ ecoOutcome' = Raised("login failed")
             /\ ecoTrace'.user = 0
             /\ ecoTrace'.data = 0
             /\ ecoFile' = ecoFile]_vars

\* a thermostat pass whose cached token failed the probe and whose login then
\* failed, over a data file that holds readings
C16_Witness ==
    /\ ecoTrace.loginFailed
    /\ ecoTrace.probe = 1
    /\ ecoOutcome = Raised("login failed")
    /\ ecoFile.exists
    /\ ecoFile.parses

\* C17: a pass that fails ends by returning an outcome record with ok false;
\* no pass ends with an exception leaving it
C17_StructuredOutcome ==
    /\ hsvOutcome.kind # "raised"
    /\ ecoOutcome.kind # "raised"

---------------------------------------------------------------------------
(* Properties of a coordinator update (SpecUpdate)                          *)

\* the pass ran and ended in a failure: an outcome with ok false or an exception
PassFailed(outcome) ==
    outcome.kind = "raised" \/ (outcome.kind = "returned" /\ ~outcome.ok)

\* the pass ran and returned an outcome
PassReturned(outcome) == outcome.kind = "returned"

\* C18: at the end of an update in which the pass of one source failed, the
\* pass of the other source has run and what it returned is in the result
\* handed to the caller
C18_SourceIsolation ==
    uPc = "done" =>
        /\ PassFailed(hsvOutcome) =>
              /\ ecoOutcome.kind # "none"
              /\ PassReturned(ecoOutcome) => (uResult.kind = "data" /\ uResult.ecobee = ecoOutcome)
        /\ PassFailed(ecoOutcome) =>
              /\ hsvOutcome.kind # "none"
              /\ PassReturned(hsvOutcome) => (uResult.kind = "data" /\ uResult.hsv = hsvOutcome)

---------------------------------------------------------------------------
(* Properties of a data request (SpecRetry)                                 *)

ServerError(status) == status >= 500 /\ status <= 599

\* C20: a request answered with a 5xx status is sent again until it succeeds
\* or the ceiling of attempts (3 by default) is reached: it is never given up
\* earlier, never sent more often than the ceiling, and it ends as a failure
\* after the last failed attempt
C20_TransientRetry ==
    \E ceiling \in {IF rFn = GetThermostatDataA THEN rRetries ELSE 3} :
        /\ rAttempt <= ceiling
        /\ (rPc \in {"returned", "raised"} /\ ServerError(rLast)) =>
              (rPc = "raised" /\ rAttempt = ceiling)

---------------------------------------------------------------------------
(* The token cache over a sequence of passes (SpecSession).  A behaviour    *)
(* follows the passes of one function: run_hsv_incremental with its        *)
(* create_session, collect_hsv_data with the create_session of              *)
(* hsv_scraper.py, main of the command-line thermostat scraper, or          *)
(* run_ecobee_incremental (the actions EcoStart .. EcoFetchMergeSave)       *)

HsvCollect == "hsv_scraper.collect_hsv_data"
SessFns    == {HsvIncHA, HsvCollect, EcoIncSA, EcoIncHA}

\* the functions that keep a token file
CachingFns == {HsvIncHA, EcoIncSA, EcoIncHA}

\* statuses answered to a request that carries the token
SessStatuses == {200, 401, 500}

InitSession ==
    /\ sFn \in SessFns
    /\ sPc = "idle"
    /\ sTokenFile = NoToken
    /\ sHeader = NoToken
    /\ sRejected = {}
    /\ sTrace = NoSessTrace
    /\ sOutcome = "none"
    /\ source = (IF sFn = EcoIncHA THEN "ecobee" ELSE "none")
    /\ HsvInit
    /\ EcoInit
    /\ MergeParked
    /\ PollParked
    /\ PlanParked
    /\ UpdateParked
    /\ RetryParked
    /\ SeriesParked
    /\ PoliteParked
    /\ DiscoverParked
    /\ FlowParked
    /\ AvailParked
    /\ TestParked
    /\ CollectParked

\* a request is sent with the token of the header: was that token rejected before
SentWith(trace, header, rejected) ==
    [trace EXCEPT !.sentRejected = @ \/ header \in rejected]

\* the answer 401 marks the token the request carried
Answered(status, header, rejected) ==
    IF status = 401 /\ header # NoToken THEN rejected \cup {header} ELSE rejected

\* a pass that starts without reading the token file
SessStartNoCache ==
    /\ sFn \in {HsvIncHA, HsvCollect, EcoIncSA}
    /\ sPc \in {"idle", "done"}
    /\ sHeader' = NoToken
    /\ sPc' = "login"
    /\ sTrace' = [NoSessTrace EXCEPT !.cached = LoadToken(sTokenFile)]
    /\ sOutcome' = "none"
    /\ UNCHANGED <<sFn, sTokenFile, sRejected>>

\* the pass starts: token = load_token(...); `if token:` leads to the probe.
\* create_session of hsv_scraper.py reads no token file
SessStart ==
    /\ sFn \in {HsvIncHA, HsvCollect, EcoIncSA}
    /\ sPc \in {"idle", "done"}
    /\ \E token \in {IF sFn = HsvCollect THEN NoToken ELSE LoadToken(sTokenFile)} :
          /\ sHeader' = token
          /\ sPc' = IF token # NoToken THEN "probe" ELSE "login"
          /\ sTrace' = [NoSessTrace EXCEPT !.cached = token]
    /\ sOutcome' = "none"
    /\ UNCHANGED <<sFn, sTokenFile, sRejected>>

\* the probe with the cached token: GET /services/secured/accounts in
\* create_session (status 200 returns the session), get_thermostat_id in main
\* (its except clause removes TOKEN_FILE and SESSION_FILE)
SessProbe ==
    /\ sPc = "probe"
    /\ \E status \in SessStatuses :
          /\ sTrace' = [SentWith(sTrace, sHeader, sRejected)
                            EXCEPT !.probe = @ + 1, !.probeOk = (status = 200)]
          /\ sRejected' = Answered(status, sHeader, sRejected)
          /\ IF status = 200
             THEN /\ sPc' = IF sFn = EcoIncSA THEN "data" ELSE "account"
                  /\ UNCHANGED sTokenFile
             ELSE /\ sPc' = "login"
                  /\ sTokenFile' = IF sFn = EcoIncSA THEN NoToken ELSE sTokenFile
    /\ UNCHANGED <<sFn, sHeader, sOutcome>>

\* the login flow (t = NoToken: it fails).  create_session of
\* hsv_scraper_incremental.py: POST /login through the session, which still
\* carries the Authorization header of the probe, GET of the landing page,
\* save_token, header update.  create_session of hsv_scraper.py: POST /login,
\* POST /services/oauth/auth/v2, header update, no token file.  main:
\* authenticate_ecobee_browser, save_token
SessLogin ==
    /\ sPc = "login"
    /\ \E t \in 0..MaxTokens :
          /\ sTrace' = [(IF sFn = HsvIncHA THEN SentWith(sTrace, sHeader, sRejected) ELSE sTrace)
                            EXCEPT !.login = @ + 1, !.loginOk = (t # NoToken)]
          /\ IF t = NoToken
             THEN /\ sPc' = "done"
                  /\ sOutcome' = CASE sFn = HsvIncHA   -> "authentication failed"
                                   [] sFn = HsvCollect -> "returned False"
                                   [] OTHER            -> "raised"
                  /\ UNCHANGED <<sHeader, sTokenFile, sRejected>>
             ELSE /\ sPc' = IF sFn = EcoIncSA THEN "user" ELSE "account"
                  /\ sHeader' = t
                  /\ sTokenFile' = IF sFn = HsvCollect THEN sTokenFile ELSE t
                  /\ sRejected' = sRejected \ {t}
                  /\ UNCHANGED sOutcome
    /\ UNCHANGED sFn

\* main after the login: thermostat_id = get_thermostat_id(access_token),
\* outside any try
SessUser ==
    /\ sFn = EcoIncSA
    /\ sPc = "user"
    /\ \E status \in SessStatuses :
          /\ sTrace' = SentWith(sTrace, sHeader, sRejected)
          /\ sRejected' = Answered(status, sHeader, sRejected)
          /\ IF status = 200
             THEN sPc' = "data" /\ UNCHANGED sOutcome
             ELSE sPc' = "done" /\ sOutcome' = "raised"
    /\ UNCHANGED <<sFn, sHeader, sTokenFile>>

\* get_account_info(session, username): None unless the status is 200
SessAccount ==
    /\ sFn \in {HsvIncHA, HsvCollect}
    /\ sPc = "account"
    /\ \E status \in SessStatuses :
          /\ sTrace' = SentWith(sTrace, sHeader, sRejected)
          /\ sRejected' = Answered(status, sHeader, sRejected)
          /\ IF status = 200
             THEN sPc' = "usage" /\ UNCHANGED sOutcome
             ELSE /\ sPc' = "done"
                  /\ sOutcome' = IF sFn = HsvIncHA THEN "could not fetch account info"
                                                   ELSE "returned False"
    /\ UNCHANGED <<sFn, sHeader, sTokenFile>>

\* one usage request of the loop over the industries.  get_usage_data of
\* hsv_scraper_incremental.py returns [] on a status other than 200 and the
\* loop goes on; collect_usage_data returns None and the pass returns False
SessUsage ==
    /\ sFn \in {HsvIncHA, HsvCollect}
    /\ sPc = "usage"
    /\ sTrace.data < Len(Industries)
    /\ \E status \in SessStatuses :
          /\ sTrace' = [SentWith(sTrace, sHeader, sRejected) EXCEPT !.data = @ + 1]
          /\ sRejected' = Answered(status, sHeader, sRejected)
          /\ IF sFn = HsvCollect /\ status # 200
             THEN sPc' = "done" /\ sOutcome' = "returned False"
             ELSE IF sTrace.data + 1 = Len(Industries)
                  THEN sPc' = "done" /\ sOutcome' = "ok"
                  ELSE sPc' = "usage" /\ UNCHANGED sOutcome
    /\ UNCHANGED <<sFn, sHeader, sTokenFile>>

\* main: get_thermostat_data inside try; `except Exception as e:` prints
\* "token expired, will reauth next run" on a 401 and raises again
SessData ==
    /\ sFn = EcoIncSA
    /\ sPc = "data"
    /\ \E status \in SessStatuses :
          /\ sTrace' = [SentWith(sTrace, sHeader, sRejected) EXCEPT !.data = @ + 1]
          /\ sRejected' = Answered(status, sHeader, sRejected)
          /\ sOutcome' = IF status = 200 THEN "ok" ELSE "raised"
    /\ sPc' = "done"
    /\ UNCHANGED <<sFn, sHeader, sTokenFile>>

SessFrame == <<mergeVars, passVars, pollVars, planVars, updVars, retryVars, serVars, polVars, disVars, flowVars, availVars, testVars, collVars>>

NextSession ==
    \/ SessStart /\ UNCHANGED SessFrame
    \/ SessProbe /\ UNCHANGED SessFrame
    \/ SessLogin /\ UNCHANGED SessFrame
    \/ SessUser /\ UNCHANGED SessFrame
    \/ SessAccount /\ UNCHANGED SessFrame
    \/ SessUsage /\ UNCHANGED SessFrame
    \/ SessData /\ UNCHANGED SessFrame
    \/ EcoStart /\ UNCHANGED EcoFrame
    \/ EcoProbe /\ UNCHANGED EcoFrame
    \/ EcoLogin /\ UNCHANGED EcoFrame
    \/ EcoGetThermostatId /\ UNCHANGED EcoFrame
    \/ EcoFetchMergeSave /\ UNCHANGED EcoFrame

SpecSession == InitSession /\ [][NextSession]_vars

---------------------------------------------------------------------------
(* Properties of the token cache (SpecSession)                              *)

\* the pass is past its token check: it asks for data or is about to
PastTokenCheck == sPc \in {"user", "account", "usage", "data"} \/ sTrace.data > 0

EcoPastTokenCheck == ecoPc \in {"user", "fetch"} \/ ecoTrace.user > 0

\* C21: a pass that finds a cached token sends exactly one probe with it;
\* after a successful probe the pass sends no login and goes on with the
\* cached token; after a failed probe, or without a cached token, the login
\* has succeeded before the pass asks for anything else
C21_CachedTokenProbe ==
    /\ sFn \in CachingFns =>
          /\ sTrace.probe <= 1
          /\ (sTrace.cached # NoToken /\ sPc # "probe") => sTrace.probe = 1
          /\ sTrace.cached = NoToken => sTrace.probe = 0
          /\ sTrace.probeOk => (sTrace.login = 0 /\ sHeader = sTrace.cached)
          /\ (PastTokenCheck /\ ~sTrace.probeOk) => (sTrace.login = 1 /\ sTrace.loginOk)
    /\ ecoTrace.probe <= 1
    /\ ecoTrace.probeOk => (ecoTrace.login = 0 /\ ecoToken = ecoTokenFile /\ ecoToken # NoToken)
    /\ (EcoPastTokenCheck /\ ~ecoTrace.probeOk) => (ecoTrace.login = 1 /\ ~ecoTrace.loginFailed)

\* a pass of run_hsv_incremental went through on the cached token alone, and
\* the pass before it had to log in
C21_Witness ==
    /\ sFn = HsvIncHA
    /\ sOutcome = "ok"
    /\ sTrace.cached # NoToken
    /\ sTrace.probeOk
    /\ sTrace.login = 0
    /\ sTrace.data = Len(Industries)


\* C22: after a login that succeeded, the token file holds the token the
\* login handed out, and the next pass starts from that token and probes it
\* instead of logging in again
C22_TokenPersistence ==
    [][/\ sTrace'.loginOk => (sTokenFile' = sHeader' /\ sHeader' # NoToken)
       /\ (sPc = "done" /\ sTrace.loginOk /\ sPc' # "done") =>
             (sPc' = "probe" /\ sHeader' = sHeader)
       /\ (ecoTrace'.login = 1 /\ ~ecoTrace'.loginFailed) =>
             (ecoTokenFile' = ecoToken' /\ ecoToken' # NoToken)
       /\ (ecoPc = "done" /\ ecoTrace.login = 1 /\ ~ecoTrace.loginFailed /\ ecoPc' # "done") =>
             (ecoPc' = "probe" /\ ecoToken' = ecoToken)]_vars


\* C23: a token a request was answered 401 for is not in the token cache
\* after that answer, and no later request is sent with it
C23_TokenInvalidation ==
    /\ sTokenFile \notin sRejected
    /\ ~sTrace.sentRejected
    /\ (ecoPc = "done" /\ ecoTrace.dataUnauthorized) => ecoTokenFile # ecoToken

---------------------------------------------------------------------------
(* Properties of the order of the two sources (SpecUpdate)                  *)

\* C24: in one update every step belongs to one source only; the thermostat
\* source is worked on only after the pass of the utility portal has ended
\* (has returned, in coordinator.py), and the utility portal only while the
\* thermostat pass has not started
C24_SequentialSources ==
    [][/\ (ecoVars' # ecoVars) =>
             /\ hsvVars' = hsvVars
             /\ uPc = "ecobee"
             /\ hsvOutcome.kind # "none"
             /\ uFn = CoordinatorUpdate => hsvOutcome.kind = "returned"
       /\ (hsvVars' # hsvVars) =>
             /\ ecoVars' = ecoVars
             /\ uPc = "hsv"
             /\ ecoPc = "idle"
             /\ ecoOutcome.kind = "none"]_vars

\* an update of coordinator.py in which both passes ran and stored readings
C24_Witness ==
    /\ uFn = CoordinatorUpdate
    /\ uPc = "done"
    /\ uResult.kind = "data"
    /\ uResult.hsv.added > 0
    /\ uResult.ecobee.added > 0
    /\ hsvFile.exists /\ ecoFile.exists

---------------------------------------------------------------------------
(* Properties of the merge order (SpecMerge)                                *)

\* the series the payload brings readings for
PayloadSeries ==
    CHOOSE k \in IndustrySet \X Intervals :
        mPayload[k[1]].present /\ mPayload[k[1]].iv[k[2]].present

\* merging payload a, then payload b, into the stored data
MergedInOrder(existing, a, b) == merge_data(merge_data(existing, a).data, b).data

EcoMergedInOrder(readings, a, b) == eco_merge_data(eco_merge_data(readings, a).rd, b).rd

\* C25: for the stored data and the payload of the state and every second
\* payload for the same series, merging the two payloads in either order
\* gives the same series
C25_CommutativeMerge ==
    /\ (mFn = "hsv" /\ mStep = 0) =>
          \A readings \in SeqsUpTo(Reading, MaxLen) :
              \E b \in {PayloadOf(PayloadSeries[1], PayloadSeries[2], readings)} :
                  MergedInOrder(mExisting, mPayload, b) = MergedInOrder(mExisting, b, mPayload)
    /\ (mFn = "ecobee" /\ mStep = 0) =>
          \A rows \in SeqsUpTo(Row, MaxLen) :
              EcoMergedInOrder(eExisting, ePayload, rows) = EcoMergedInOrder(eExisting, rows, ePayload)

---------------------------------------------------------------------------
(* One series over the passes of one merge function (SpecSeries).  A        *)
(* reading carries a timestamp, or it is a monthly current-period record:   *)
(* {"timestamp": None, "datetime": "<month>/<year>", "usage": ...}, whose   *)
(* month/year is the field period here                                      *)

MaxPeriod    == 2      \* month/year values of the monthly records
MaxSeriesLen == 3      \* passes are followed while the series holds at most this many readings

MergeHA        == "custom_components/hsv_scraper_incremental.merge_data"
SaveDataHA     == "custom_components/hsv_scraper.save_data"
MergeScriptHsv == "scrapers/hsv_scraper_incremental.merge_data"
MergeScriptEco == "scrapers/ecobee_scraper_incremental.merge_data"
SeriesFns      == {MergeHA, SaveDataHA, MergeScriptHsv, MergeScriptEco}

StampedRecords == [ts : 1..MaxTs, usage : Usages, period : {0}]
MonthlyRecords == [ts : {NoTs}, usage : Usages, period : 1..MaxPeriod]

\* what process_usage_data hands on for a series: the points of "data", or
\* the one record of "current" when there are no points
Normalized == SeqsUpTo(StampedRecords, MaxLen) \cup {<<m>> : m \in MonthlyRecords}

\* the readings a pass can bring for the series
Payloads(fn) ==
    CASE fn = MergeHA        -> SeqsUpTo(StampedRecords \cup MonthlyRecords, MaxLen)
      [] fn = MergeScriptEco -> SeqsUpTo(StampedRecords, MaxLen)
      [] OTHER               -> Normalized

\* the series the full-history scraper leaves in the file the incremental
\* script reads: readings with a timestamp each, in ascending order
FullHistorySeries ==
    {SeriesOf(rd) : rd \in {q \in SeqsUpTo(StampedRecords, MaxLen) :
                               q # <<>> /\ \A k \in 1..(Len(q) - 1) : q[k].ts < q[k + 1].ts}}

\* what a call hands back, and the series it leaves in memory
CallResult(s, added, shape) == [s |-> s, added |-> added, shape |-> shape]

\* the readings of new whose timestamp is not in seen; the loops of save_data
\* and of the scripts' merge_data do not add to the set while they run
NotSeen(new, seen) == SelectSeq(new, LAMBDA r : r.ts \notin seen)

\* merge_data of hsv_scraper_incremental.py, for one series
MergeHASeries(e, new) ==
    CallResult(MergeInterval(e, SeriesOf(new)).s, MergeInterval(e, SeriesOf(new)).added, "pair")

\* save_data of hsv_scraper.py, for one meter: the set of stored timestamps
\* holds None when a monthly record is stored; sort key `x["timestamp"] or 0`
SaveDataSeries(e, new) ==
    IF ~e.present THEN CallResult(SeriesOf(new), Len(new), "none")
    ELSE LET fresh == NotSeen(new, {e.rd[k].ts : k \in 1..Len(e.rd)})
         IN CallResult(SeriesOf(StableSort(e.rd \o fresh)), Len(fresh), "none")

\* list.sort(key=lambda x: x.get("timestamp", 0)) on readings whose
\* "timestamp" key holds None: comparing None raises TypeError
SortRaises(rd) == Len(rd) >= 2 /\ \E k \in 1..Len(rd) : rd[k].ts = NoTs

\* merge_data of scrapers/hsv_scraper_incremental.py, for the first meter of
\* one industry
MergeScriptHsvSeries(e, new) ==
    IF new = <<>> THEN CallResult(e, 0, "pair")
    ELSE IF ~e.present THEN CallResult(SeriesOf(new), Len(new), "pair")
    ELSE LET stored == {e.rd[k].ts : k \in 1..Len(e.rd)} \ {NoTs}
             fresh  == SelectSeq(NotSeen(new, stored), LAMBDA r : r.ts # NoTs)
         IN IF SortRaises(e.rd \o fresh)
            THEN CallResult(e, 0, "raised")
            ELSE CallResult(SeriesOf(StableSort(e.rd \o fresh)), Len(fresh), "pair")

\* merge_data of scrapers/ecobee_scraper_incremental.py: three of its four
\* return statements hand back `existing` alone
MergeScriptEcoSeries(e, new) ==
    IF new = <<>> THEN CallResult(e, 0, "single")
    ELSE IF ~e.present THEN CallResult(SeriesOf(new), 0, "single")
    ELSE LET fresh == NotSeen(new, {e.rd[k].ts : k \in 1..Len(e.rd)})
         IN CallResult(SeriesOf(StableSort(e.rd \o fresh)), Len(fresh), "pair")

\* the call of one pass
MergeCall(fn, e, new) ==
    CASE fn = MergeHA        -> MergeHASeries(e, new)
      [] fn = SaveDataHA     -> SaveDataSeries(e, new)
      [] fn = MergeScriptHsv -> MergeScriptHsvSeries(e, new)
      [] OTHER               -> MergeScriptEcoSeries(e, new)

\* does the pass write the merged series to the data file: main of the
\* scripts unpacks `merged, added = merge_data(...)` before save_data, which
\* raises on a single value, and an exception of merge_data ends main
Persists(fn, shape) == shape \in {"pair", "none"}

InitSeries ==
    /\ gFn \in SeriesFns
    /\ gSeries \in {AbsentSeries} \cup
                   (IF gFn \in {MergeScriptHsv, MergeScriptEco} THEN FullHistorySeries ELSE {})
    /\ gBefore = AbsentSeries
    /\ gPayload = <<>>
    /\ gAdded = 0
    /\ gShape = "idle"
    /\ MergeParked
    /\ PassParked
    /\ PollParked
    /\ PlanParked
    /\ UpdateParked
    /\ RetryParked
    /\ SessionParked
    /\ PoliteParked
    /\ DiscoverParked
    /\ FlowParked
    /\ AvailParked
    /\ TestParked
    /\ CollectParked

\* one pass: load the data file, merge the fetched readings, save
SeriesPass ==
    /\ gFn \in SeriesFns
    /\ \E new \in Payloads(gFn) :
       \E r \in {MergeCall(gFn, gSeries, new)} :
          /\ Len(r.s.rd) <= MaxSeriesLen
          /\ gPayload' = new
          /\ gBefore' = gSeries
          /\ gAdded' = r.added
          /\ gShape' = r.shape
          /\ gSeries' = IF Persists(gFn, r.shape) THEN r.s ELSE gSeries
    /\ UNCHANGED gFn

SeriesFrame == <<mergeVars, passVars, pollVars, planVars, updVars, retryVars, sessVars, polVars, disVars, flowVars, availVars, testVars, collVars>>

NextSeries ==
    \/ SeriesPass /\ UNCHANGED SeriesFrame

SpecSeries == InitSeries /\ [][NextSeries]_vars

---------------------------------------------------------------------------
(* Properties of the dedup key (SpecSeries)                                 *)

\* the dedup key of a reading: its timestamp, or its month/year when it has
\* no timestamp
DedupKey(r) == IF r.ts # NoTs THEN <<"timestamp", r.ts>> ELSE <<"month/year", r.period>>

DedupKeys(rd) == {DedupKey(rd[k]) : k \in 1..Len(rd)}

\* the readings of the list stored under one key, in order
Under(rd, key) == SelectSeq(rd, LAMBDA r : DedupKey(r) = key)

\* C26: after a pass, every key the series held before the pass holds the
\* same readings as before: none replaced, none added
C26_FirstWriteWins ==
    \A key \in DedupKeys(gBefore.rd) : Under(gSeries.rd, key) = Under(gBefore.rd, key)


\* C27: after a pass, every fetched reading without a timestamp is in the
\* series under its month/year: when the month/year was stored before the
\* pass it holds the same readings as before, and when it was not stored the
\* series now holds it
C27_MonthYearKey ==
    \A k \in 1..Len(gPayload) :
        gPayload[k].ts = NoTs =>
            \E key \in {DedupKey(gPayload[k])} :
                IF key \in DedupKeys(gBefore.rd)
                THEN Under(gSeries.rd, key) = Under(gBefore.rd, key)
                ELSE key \in DedupKeys(gSeries.rd)


\* C28: after every pass of a merge_data, the call returned a pair (merged
\* series, added count), and after a first pass (no series stored before it)
\* the stored series is the fetched list and added is its length
C28_MergeResultShape ==
    (gShape # "idle" /\ gFn # SaveDataHA) =>
        /\ gShape = "pair"
        /\ ~gBefore.present => (gSeries.rd = gPayload /\ gAdded = Len(gPayload))


---------------------------------------------------------------------------
(* The requests and the sleeps of one fetch loop (SpecPolite): the loop     *)
(* over the industries of run_hsv_incremental, of main of hsv_scraper.py    *)
(* (one range per industry, or chunks) and of main of                       *)
(* hsv_scraper_incremental.py.  Durations are milliseconds.                 *)

MaxPolitePolls  == 1    \* repeated polls of one get_usage_data call
MaxPoliteChunks == 2    \* chunks per industry of the chunked full fetch

ha_delay    == 250      \* time.sleep(0.25)
chunk_delay == 500      \* time.sleep(0.5)
poll_delay  == 2000     \* time.sleep(2)

RunHsvIncremental == "custom_components/hsv_scraper_incremental.run_hsv_incremental"
FullMain          == "scrapers/hsv_scraper.main"
IncMain           == "scrapers/hsv_scraper_incremental.main"
PoliteFns         == {RunHsvIncremental, FullMain, IncMain}

\* one HTTP request for a date range of an industry
Request(i, c, failed) ==
    [kind |-> "request", industry |-> i, chunk |-> c, failed |-> failed, ms |-> 0]

\* one time.sleep: "poll_sleep" inside get_usage_data, "delay" in the loop
Sleep(kind, ms) ==
    [kind |-> kind, industry |-> 0, chunk |-> 0, failed |-> FALSE, ms |-> ms]

\* get_usage_data of the scripts: the request, then while the status is not
\* COMPLETE a sleep and the request again; failed: the last request raised
Posts(i, c, polls, failed) ==
    [k \in 1..(2 * polls + 1) |->
        IF k % 2 = 1 THEN Request(i, c, failed /\ k = 2 * polls + 1)
                     ELSE Sleep("poll_sleep", poll_delay)]

LastRange == dIndustry = Len(Industries) /\ dChunk = dChunks

\* the loop moves to the next date range, the next industry, or ends
Advance ==
    /\ dPc' = IF LastRange THEN "done" ELSE "fetch"
    /\ dChunk' = IF dChunk < dChunks THEN dChunk + 1 ELSE 1
    /\ dIndustry' = IF dChunk < dChunks THEN dIndustry ELSE dIndustry + 1

InitPolite ==
    /\ dFn \in PoliteFns
    /\ dPc = "fetch"
    /\ dChunks \in (IF dFn = FullMain THEN 1..MaxPoliteChunks ELSE {1})
    /\ dIndustry = 1
    /\ dChunk = 1
    /\ dLog = <<>>
    /\ MergeParked
    /\ PassParked
    /\ PollParked
    /\ PlanParked
    /\ UpdateParked
    /\ RetryParked
    /\ SessionParked
    /\ SeriesParked
    /\ DiscoverParked
    /\ FlowParked
    /\ AvailParked
    /\ TestParked
    /\ CollectParked

\* run_hsv_incremental, one industry: get_usage_data sends one request and
\* returns [] when it fails; then time.sleep(0.25)
HaFetch ==
    /\ dFn = RunHsvIncremental
    /\ dPc = "fetch"
    /\ \E failed \in BOOLEAN :
          dLog' = dLog \o <<Request(dIndustry, 1, failed), Sleep("delay", ha_delay)>>
    /\ Advance
    /\ UNCHANGED <<dFn, dChunks>>

\* what a fetch of a script leaves: an exception of get_usage_data ends main
ScriptFetched(log, failed) ==
    /\ dLog' = log
    /\ IF failed
       THEN dPc' = "raised" /\ UNCHANGED <<dIndustry, dChunk>>
       ELSE Advance
    /\ UNCHANGED <<dFn, dChunks>>

\* main of hsv_scraper.py, days_to_fetch <= max_chunk_size: one industry
FullFetchRange ==
    /\ dFn = FullMain
    /\ dChunks = 1
    /\ dPc = "fetch"
    /\ \E polls \in 0..MaxPolitePolls, failed \in BOOLEAN :
          ScriptFetched(dLog \o Posts(dIndustry, 1, polls, failed), failed)

\* main of hsv_scraper.py, chunked: one chunk, then time.sleep(0.5)
FullFetchChunk ==
    /\ dFn = FullMain
    /\ dChunks > 1
    /\ dPc = "fetch"
    /\ \E polls \in 0..MaxPolitePolls, failed \in BOOLEAN :
          ScriptFetched(dLog \o Posts(dIndustry, dChunk, polls, failed)
                             \o (IF failed THEN <<>> ELSE <<Sleep("delay", chunk_delay)>>),
                        failed)

\* main of hsv_scraper_incremental.py: one industry, fetched and merged
IncFetch ==
    /\ dFn = IncMain
    /\ dPc = "fetch"
    /\ \E polls \in 0..MaxPolitePolls, failed \in BOOLEAN :
          ScriptFetched(dLog \o Posts(dIndustry, 1, polls, failed), failed)

PoliteFrame == <<mergeVars, passVars, pollVars, planVars, updVars, retryVars, sessVars, serVars, disVars, flowVars, availVars, testVars, collVars>>

NextPolite ==
    \/ HaFetch /\ UNCHANGED PoliteFrame
    \/ FullFetchRange /\ UNCHANGED PoliteFrame
    \/ FullFetchChunk /\ UNCHANGED PoliteFrame
    \/ IncFetch /\ UNCHANGED PoliteFrame

SpecPolite == InitPolite /\ [][NextPolite]_vars

\* C29: of two consecutive requests of a pass for different date ranges or
\* industries, a delay of the loop lies between them, and every delay of the
\* loop has the same duration
C29_PolitenessDelay ==
    /\ \A j, k \in 1..Len(dLog) :
          (/\ j < k
           /\ dLog[j].kind = "request"
           /\ dLog[k].kind = "request"
           /\ <<dLog[j].industry, dLog[j].chunk>> # <<dLog[k].industry, dLog[k].chunk>>)
          => \E d \in (j + 1)..(k - 1) : dLog[d].kind = "delay"
    /\ \A j, k \in 1..Len(dLog) :
          (dLog[j].kind = "delay" /\ dLog[k].kind = "delay") => dLog[j].ms = dLog[k].ms


---------------------------------------------------------------------------
(* Probing for the start of the history (SpecDiscover): find_data_start,    *)
(* find_hsv_data_start and check_data_availability of ecobee_scraper.py.    *)
(* Dates are days before now.  The source answers every probe as it likes:  *)
(* enough data, too little data, or an error.                               *)

year_days      == 365   \* `while days_back <= 365`
scan_step      == 10    \* find_data_start: days_back = 10, days_back += 10
invalid_limit  == 3     \* find_data_start: `while consecutive_invalid < 3`
hsv_scan_step  == 30    \* find_hsv_data_start: days_back = 30, days_back += 30
eco_default_days == 30  \* check_data_availability: `return end_date - timedelta(days=30), 30`
month_days     == 31    \* check_data_availability: month_start + timedelta(days=31)

test_periods == <<30, 90, 180, 365, 540, 730>>

\* test_periods of check_data_availability of hsv_scraper.py
hsv_test_periods == <<30, 90, 180, 365, 540>>

FindDataStart    == "data_avail.find_data_start"
FindHsvDataStart == "data_availability.find_hsv_data_start"
EcoCheckAvail    == "ecobee_scraper.check_data_availability"
HsvCheckAvail    == "hsv_scraper.check_data_availability"
DiscoverFns      == {FindDataStart, FindHsvDataStart, EcoCheckAvail, HsvCheckAvail}

Answers == {"data", "few", "error"}

Min2(a, b) == IF a <= b THEN a ELSE b

\* every step sends one request, for the date xDaysBack days before now
Sent ==
    /\ xProbes' = xProbes + 1
    /\ xDeepest' = Max2(xDeepest, xDaysBack)

\* a probe of the threshold: with enough data the date becomes the oldest
\* valid one, and a probe that was below the threshold at a nearer date now
\* lies between it and now
Probed(ans) ==
    /\ Sent
    /\ IF ans = "data"
       THEN /\ xGapped' = (xGapped \/ (xPending # 0 /\ xPending < xDaysBack))
            /\ xPending' = (IF xPending > xDaysBack THEN xPending ELSE 0)
       ELSE /\ xGapped' = xGapped
            /\ xPending' = (IF xGapped THEN 0
                            ELSE IF xPending = 0 THEN xDaysBack
                            ELSE Min2(xPending, xDaysBack))

InitDiscover ==
    /\ xFn \in DiscoverFns
    /\ xPc = "scan"
    /\ xDaysBack = (CASE xFn = FindDataStart    -> scan_step
                      [] xFn = FindHsvDataStart -> hsv_scan_step
                      [] xFn = HsvCheckAvail    -> hsv_test_periods[1]
                      [] OTHER                  -> test_periods[1])
    /\ xValid = (IF xFn = FindHsvDataStart THEN hsv_scan_step ELSE 0)
    /\ xInvalid = 0
    /\ xEnd = 0
    /\ xProbes = 0
    /\ xDeepest = 0
    /\ xResult = -1
    /\ xGapped = FALSE
    /\ xPending = 0
    /\ MergeParked
    /\ PassParked
    /\ PollParked
    /\ PlanParked
    /\ UpdateParked
    /\ RetryParked
    /\ SessionParked
    /\ SeriesParked
    /\ PoliteParked
    /\ FlowParked
    /\ AvailParked
    /\ TestParked
    /\ CollectParked

\* find_data_start, phase 1: one probe of the scan every 10 days; the loop
\* ends on too few points, on an error, or past 365 days; with no valid day
\* the function returns (None, 0)
FdsScan ==
    /\ xFn = FindDataStart
    /\ xPc = "scan"
    /\ \E ans \in Answers :
       \E valid \in {IF ans = "data" THEN xDaysBack ELSE xValid} :
          /\ Probed(ans)
          /\ xValid' = valid
          /\ IF ans = "data" /\ xDaysBack + scan_step <= year_days
             THEN xPc' = "scan" /\ xDaysBack' = xDaysBack + scan_step /\ xResult' = xResult
             ELSE IF valid = 0
                  THEN xPc' = "done" /\ xDaysBack' = xDaysBack /\ xResult' = 0
                  ELSE xPc' = "fine" /\ xDaysBack' = valid + 1 /\ xResult' = xResult
    /\ UNCHANGED <<xFn, xInvalid, xEnd>>

\* find_data_start, phase 2: one probe of the day-by-day count; xValid is
\* exact_boundary
FdsFine ==
    /\ xFn = FindDataStart
    /\ xPc = "fine"
    /\ \E ans \in Answers :
       \E inv \in {IF ans = "data" THEN 0 ELSE xInvalid + 1} :
          /\ Probed(ans)
          /\ xValid' = (IF ans = "data" THEN xDaysBack ELSE xValid)
          /\ xInvalid' = inv
          /\ xDaysBack' = xDaysBack + 1
          /\ IF inv < invalid_limit /\ xDaysBack + 1 <= year_days
             THEN xPc' = "fine" /\ xResult' = xResult
             ELSE xPc' = "done" /\ xResult' = xValid'
    /\ UNCHANGED <<xFn, xEnd>>

\* find_hsv_data_start without the cap of the fine-tune range at 365
HsvScanNoCap ==
    /\ xFn = FindHsvDataStart
    /\ xPc = "scan"
    /\ \E ans \in Answers :
       \E valid \in {IF ans = "data" THEN xDaysBack ELSE xValid} :
          /\ Probed(ans)
          /\ xValid' = valid
          /\ IF ans = "data" /\ xDaysBack + hsv_scan_step <= year_days
             THEN xPc' = "scan" /\ xDaysBack' = xDaysBack + hsv_scan_step /\ xEnd' = xEnd
             ELSE xPc' = "fine" /\ xDaysBack' = valid + 1 /\ xEnd' = valid + hsv_scan_step
    /\ UNCHANGED <<xFn, xInvalid, xResult>>

\* find_hsv_data_start, quick scan: one probe every 30 days; then
\* range(last_valid + 1, min(last_valid + 30, 365)) is fixed for the
\* fine-tune loop
HsvScan ==
    /\ xFn = FindHsvDataStart
    /\ xPc = "scan"
    /\ \E ans \in Answers :
       \E valid \in {IF ans = "data" THEN xDaysBack ELSE xValid} :
          /\ Probed(ans)
          /\ xValid' = valid
          /\ IF ans = "data" /\ xDaysBack + hsv_scan_step <= year_days
             THEN xPc' = "scan" /\ xDaysBack' = xDaysBack + hsv_scan_step /\ xEnd' = xEnd
             ELSE /\ xPc' = "fine"
                  /\ xDaysBack' = valid + 1
                  /\ xEnd' = Min2(valid + hsv_scan_step, year_days)
    /\ UNCHANGED <<xFn, xInvalid, xResult>>

\* find_hsv_data_start, fine-tune: one single-day probe; the loop ends at the
\* first day without data or at the end of the range
HsvFine ==
    /\ xFn = FindHsvDataStart
    /\ xPc = "fine"
    /\ \E ans \in Answers :
          /\ Probed(ans)
          /\ xValid' = (IF ans = "data" THEN xDaysBack ELSE xValid)
          /\ xDaysBack' = xDaysBack + 1
          /\ IF ans = "data" /\ xDaysBack + 1 < xEnd
             THEN xPc' = "fine" /\ xResult' = xResult
             ELSE xPc' = "done" /\ xResult' = xValid'
    /\ UNCHANGED <<xFn, xInvalid, xEnd>>

PeriodIndex(days) == CHOOSE k \in 1..Len(test_periods) : test_periods[k] = days

\* check_data_availability, one test period: more than 10 rows make the
\* period the earliest with data; after the last period, the default of 30
\* days when no period had data
EcoScan ==
    /\ xFn = EcoCheckAvail
    /\ xPc = "scan"
    /\ \E ans \in Answers :
       \E valid \in {IF ans = "data" THEN xDaysBack ELSE xValid} :
          /\ Probed(ans)
          /\ xValid' = valid
          /\ IF PeriodIndex(xDaysBack) < Len(test_periods)
             THEN /\ xPc' = "scan"
                  /\ xDaysBack' = test_periods[PeriodIndex(xDaysBack) + 1]
                  /\ xResult' = xResult
             ELSE IF valid = 0
                  THEN xPc' = "done" /\ xDaysBack' = xDaysBack /\ xResult' = eco_default_days
                  ELSE xPc' = "month" /\ xDaysBack' = valid /\ xResult' = xResult
    /\ UNCHANGED <<xFn, xInvalid, xEnd>>

\* check_data_availability, the month after the earliest period with data:
\* the date of the first row, a day of the requested range, is the start;
\* without rows or on an error the start of the period is
EcoMonth ==
    /\ xFn = EcoCheckAvail
    /\ xPc = "month"
    /\ \E ans \in Answers, offset \in {0, 1, Min2(month_days, xValid)} :
          xResult' = (IF ans = "data" THEN xValid - offset ELSE xValid)
    /\ xPc' = "done"
    /\ Sent
    /\ UNCHANGED <<xFn, xDaysBack, xValid, xInvalid, xEnd, xGapped, xPending>>

HsvPeriodIndex(days) == CHOOSE k \in 1..Len(hsv_test_periods) : hsv_test_periods[k] = days

\* check_data_availability of hsv_scraper.py, one test period: more than 5
\* readings make the period the earliest with data; after the last period
\* the earliest period with data is returned, or the default of 30 days
HsvCheck ==
    /\ xFn = HsvCheckAvail
    /\ xPc = "scan"
    /\ \E ans \in Answers :
       \E valid \in {IF ans = "data" THEN xDaysBack ELSE xValid} :
          /\ Probed(ans)
          /\ xValid' = valid
          /\ IF HsvPeriodIndex(xDaysBack) < Len(hsv_test_periods)
             THEN /\ xPc' = "scan"
                  /\ xDaysBack' = hsv_test_periods[HsvPeriodIndex(xDaysBack) + 1]
                  /\ xResult' = xResult
             ELSE /\ xPc' = "done"
                  /\ xDaysBack' = xDaysBack
                  /\ xResult' = (IF valid = 0 THEN eco_default_days ELSE valid)
    /\ UNCHANGED <<xFn, xInvalid, xEnd>>

DiscoverFrame == <<mergeVars, passVars, pollVars, planVars, updVars, retryVars, sessVars, serVars, polVars, flowVars, availVars, testVars, collVars>>

NextDiscover ==
    \/ FdsScan /\ UNCHANGED DiscoverFrame
    \/ FdsFine /\ UNCHANGED DiscoverFrame
    \/ HsvScan /\ UNCHANGED DiscoverFrame
    \/ HsvFine /\ UNCHANGED DiscoverFrame
    \/ EcoScan /\ UNCHANGED DiscoverFrame
    \/ EcoMonth /\ UNCHANGED DiscoverFrame
    \/ HsvCheck /\ UNCHANGED DiscoverFrame

\* the function runs on until it returns
SpecDiscover == InitDiscover /\ [][NextDiscover]_vars /\ WF_vars(NextDiscover)

\* the oldest date a function asks for, in days before now
HistoryBound(fn) ==
    CASE fn = EcoCheckAvail -> test_periods[Len(test_periods)]
      [] fn = HsvCheckAvail -> hsv_test_periods[Len(hsv_test_periods)]
      [] OTHER              -> year_days

\* the requests one call can send
ProbeBound(fn) ==
    CASE fn = FindDataStart    -> year_days
      [] fn = FindHsvDataStart -> (year_days \div hsv_scan_step) + hsv_scan_step
      [] OTHER                 -> Len(test_periods) + 1

BoundedBy(days) ==
    /\ xProbes <= ProbeBound(xFn)
    /\ xDeepest <= days
    /\ xResult <= days

---------------------------------------------------------------------------
(* The boundary the probing returns (SpecDiscover)                          *)

\* what a function returns when no probe met the threshold: (None, 0) of
\* find_data_start, 30 days of the others
DefaultHistory(fn) == IF fn = FindDataStart THEN 0 ELSE eco_default_days

\* C31: when the probing has returned, its boundary is the oldest probed date
\* that met the threshold, no probe nearer to now was below the threshold,
\* and a date whose probe was below the threshold is returned only as the
\* default of the function when no probe met the threshold
C31_BoundaryValidity ==
    (xPc = "done" /\ xFn \in {FindDataStart, FindHsvDataStart, HsvCheckAvail}) =>
        /\ ~xGapped
        /\ xResult = (IF xValid = 0 THEN DefaultHistory(xFn) ELSE xValid)
        /\ xPending = xResult => xResult = DefaultHistory(xFn)


---------------------------------------------------------------------------
(* The configuration flow (SpecFlow): ConfigFlow of config_flow.py, one     *)
(* step per form submitted or menu option chosen.  A credential is "" (a    *)
(* field left empty), "good" or "bad".                                      *)

Credentials == {"", "good", "bad"}

\* what a login test can answer: wrong credentials fail, right ones fail
\* when the portal does not answer
TestOutcomes(c) == IF c = "good" THEN {TRUE, FALSE} ELSE {FALSE}

Verdict(ok) == IF ok THEN "ok" ELSE "failed"

InitFlow ==
    /\ fStep = "user"
    /\ fTemp = NoCredentials
    /\ fHsvOk = FALSE
    /\ fEcoOk = FALSE
    /\ fHsvLast = "none"
    /\ fEcoLast = "none"
    /\ fEntry = NoEntry
    /\ MergeParked
    /\ PassParked
    /\ PollParked
    /\ PlanParked
    /\ UpdateParked
    /\ RetryParked
    /\ SessionParked
    /\ SeriesParked
    /\ PoliteParked
    /\ DiscoverParked
    /\ AvailParked
    /\ TestParked
    /\ CollectParked

\* async_step_user with the form filled in, then async_step_actions
FlowUser ==
    /\ fStep = "user"
    /\ \E h \in Credentials, e \in Credentials : fTemp' = [hsv |-> h, ecobee |-> e]
    /\ fHsvOk' = FALSE
    /\ fEcoOk' = FALSE
    /\ fHsvLast' = "none"
    /\ fEcoLast' = "none"
    /\ fStep' = "actions"
    /\ UNCHANGED fEntry

\* async_step_test_hsv
FlowTestHsv ==
    /\ fStep = "actions"
    /\ IF fTemp.hsv = ""
       THEN UNCHANGED <<fHsvOk, fHsvLast>>
       ELSE \E ok \in TestOutcomes(fTemp.hsv) : fHsvOk' = ok /\ fHsvLast' = Verdict(ok)
    /\ fStep' = "test_hsv_result"
    /\ UNCHANGED <<fTemp, fEcoOk, fEcoLast, fEntry>>

\* async_step_test_ecobee
FlowTestEcobee ==
    /\ fStep = "actions"
    /\ IF fTemp.ecobee = ""
       THEN UNCHANGED <<fEcoOk, fEcoLast>>
       ELSE \E ok \in TestOutcomes(fTemp.ecobee) : fEcoOk' = ok /\ fEcoLast' = Verdict(ok)
    /\ fStep' = "test_ecobee_result"
    /\ UNCHANGED <<fTemp, fHsvOk, fHsvLast, fEntry>>

\* async_step_ecobee_tutorial
FlowTutorial ==
    /\ fStep = "actions"
    /\ fStep' = "ecobee_tutorial_done"
    /\ UNCHANGED <<fTemp, fHsvOk, fEcoOk, fHsvLast, fEcoLast, fEntry>>

\* async_step_test_hsv_result, async_step_test_ecobee_result,
\* async_step_ecobee_tutorial_done, async_step_finish_blocked: back to the menu
FlowBack ==
    /\ fStep \in {"test_hsv_result", "test_ecobee_result", "ecobee_tutorial_done", "finish_blocked"}
    /\ fStep' = "actions"
    /\ UNCHANGED <<fTemp, fHsvOk, fEcoOk, fHsvLast, fEcoLast, fEntry>>

\* async_step_finish with the test of the thermostat login left out
FlowFinishHsvOnly ==
    /\ fStep = "actions"
    /\ IF ~fHsvOk
       THEN fStep' = "finish_blocked" /\ fEntry' = fEntry
       ELSE fStep' = "created" /\ fEntry' = fTemp
    /\ UNCHANGED <<fTemp, fHsvOk, fEcoOk, fHsvLast, fEcoLast>>

\* async_step_finish
FlowFinish ==
    /\ fStep = "actions"
    /\ IF ~fHsvOk \/ ~fEcoOk
       THEN fStep' = "finish_blocked" /\ fEntry' = fEntry
       ELSE fStep' = "created" /\ fEntry' = fTemp
    /\ UNCHANGED <<fTemp, fHsvOk, fEcoOk, fHsvLast, fEcoLast>>

FlowFrame == <<mergeVars, passVars, pollVars, planVars, updVars, retryVars, sessVars, serVars, polVars, disVars, availVars, testVars, collVars>>

NextFlow ==
    \/ FlowUser /\ UNCHANGED FlowFrame
    \/ FlowTestHsv /\ UNCHANGED FlowFrame
    \/ FlowTestEcobee /\ UNCHANGED FlowFrame
    \/ FlowTutorial /\ UNCHANGED FlowFrame
    \/ FlowBack /\ UNCHANGED FlowFrame
    \/ FlowFinish /\ UNCHANGED FlowFrame

SpecFlow == InitFlow /\ [][NextFlow]_vars

BothVerified == fHsvLast = "ok" /\ fEcoLast = "ok"

\* C32: an entry exists only when the last login test of each source, run on
\* the credentials the entry holds, succeeded; the finish step creates the
\* entry in that case and shows the blocked form otherwise, and the blocked
\* form leads back to the menu without an entry
C32_FinishGuard ==
    /\ [](fEntry # NoEntry => (BothVerified /\ fEntry = fTemp))
    /\ [][/\ (fStep = "actions" /\ fStep' \in {"created", "finish_blocked"}) =>
                IF BothVerified
                THEN fStep' = "created" /\ fEntry' = fTemp
                ELSE fStep' = "finish_blocked" /\ fEntry' = NoEntry
          /\ fStep = "finish_blocked" => (fStep' = "actions" /\ fEntry' = NoEntry)]_vars

\* the finish step created an entry from the credentials entered
C32_Witness ==
    /\ fStep = "created"
    /\ fEntry = fTemp
    /\ fTemp = [hsv |-> "good", ecobee |-> "good"]

---------------------------------------------------------------------------
(* The availability check of utilities_scraper/scrapers/data_availability.py:
   the 24-hour cache of DataAvailability, the maximum-window test, the search
   for the start of the data, and the chunk loop of the two mains that is
   handed the window found.  test_max_window of data_avail.py, the survey
   tool's window test, is explored beside it.  Time is counted in hours for
   the cache and in days for the chunk loop. *)

MaxHours   == 36     \* the clock is explored up to this hour
MaxCurEnd  == 700    \* current_end is explored up to this many days after start_date

cache_hours        == 24
max_window_default == 360
back_off           == 90
baseline_days      == 30
window_step        == 30
max_test_default   == 365

CheckHsv      == "data_availability.check_hsv_availability"
CheckEcobee   == "data_availability.check_ecobee_availability"
TestMaxWindow == "data_avail.test_max_window"

CheckFns == {CheckHsv, CheckEcobee}

CacheKey(fn) == IF fn = CheckHsv THEN "hsv" ELSE "ecobee"

\* for days in [30, 90, 180, 360]
hsv_windows == <<30, 90, 180, 360>>

IndexOfWindow(days) == CHOOSE i \in 1..Len(hsv_windows) : hsv_windows[i] = days

\* hours between two calls, total_days_available as the search for the start of
\* the data can find it, and the values of DATA_PERIOD_DAYS explored
Delays        == {0, 12}
StartDays     == {30, 200, 364}
PeriodChoices == {-1, 7, 400}

\* DataAvailability.get_cached with expiry left out
GetCachedNoExpiry(cache, key, now) ==
    IF cache[key].set
    THEN [hit |-> TRUE, max_days |-> cache[key].max_days, total_days |-> cache[key].total_days]
    ELSE [hit |-> FALSE, max_days |-> 0, total_days |-> 0]

\* DataAvailability.get_cached: the data of an entry younger than 24 hours,
\* None (hit = FALSE) otherwise
GetCached(cache, key, now) ==
    IF cache[key].set /\ now - cache[key].at < cache_hours
    THEN [hit |-> TRUE, max_days |-> cache[key].max_days, total_days |-> cache[key].total_days]
    ELSE [hit |-> FALSE, max_days |-> 0, total_days |-> 0]

\* DataAvailability.set_cached
SetCached(cache, key, data, now) ==
    [cache EXCEPT ![key] = [set |-> TRUE, max_days |-> data.max_days,
                            total_days |-> data.total_days, at |-> now]]

InitAvail ==
    /\ aFn = "none"
    /\ aPc = "idle"
    /\ aClock = 0
    /\ aCache = EmptyCache
    /\ aDays = 0
    /\ aLargestOk = 0
    /\ aMaxDays = 0
    /\ aResult = NoAvailability
    /\ aProbes = 0
    /\ aCurEnd = 0
    /\ aIter = 0
    /\ MergeParked
    /\ PassParked
    /\ PollParked
    /\ PlanParked
    /\ UpdateParked
    /\ RetryParked
    /\ SessionParked
    /\ SeriesParked
    /\ PoliteParked
    /\ DiscoverParked
    /\ FlowParked
    /\ TestParked
    /\ CollectParked

\* check_hsv_availability / check_ecobee_availability up to the cache test: a
\* cached result is returned at once; otherwise the portal's window is tested
\* and the thermostat's is fixed at 30 days
AvailCheck ==
    /\ aPc \in {"idle", "done", "raised"}
    /\ \E fn \in CheckFns, dt \in Delays :
        /\ aClock + dt <= MaxHours
        /\ aClock' = aClock + dt
        /\ aFn' = fn
        /\ \E cached \in {GetCached(aCache, CacheKey(fn), aClock + dt)} :
            IF cached.hit
            THEN /\ aResult' = [max_days |-> cached.max_days, total_days |-> cached.total_days]
                 /\ aPc' = "have"
                 /\ UNCHANGED <<aDays, aMaxDays>>
            ELSE /\ aResult' = NoAvailability
                 /\ IF fn = CheckHsv
                    THEN aPc' = "window" /\ aDays' = hsv_windows[1] /\ aMaxDays' = 0
                    ELSE aPc' = "start" /\ aDays' = 0 /\ aMaxDays' = eco_max_days
    /\ aProbes' = 0
    /\ aLargestOk' = 0
    /\ aCurEnd' = 0
    /\ aIter' = 0
    /\ UNCHANGED aCache

\* test_hsv_max_window, one probe: a failure returns days - 90, the last
\* success returns 360
TestHsvMaxWindow ==
    /\ aPc = "window"
    /\ aProbes' = aProbes + 1
    /\ \E ok \in BOOLEAN :
        IF ok
        THEN /\ aLargestOk' = aDays
             /\ IF IndexOfWindow(aDays) < Len(hsv_windows)
                THEN /\ aDays' = hsv_windows[IndexOfWindow(aDays) + 1]
                     /\ UNCHANGED <<aPc, aMaxDays>>
                ELSE /\ aMaxDays' = max_window_default
                     /\ aPc' = "start"
                     /\ aDays' = 0
        ELSE /\ aMaxDays' = aDays - back_off
             /\ aPc' = "start"
             /\ aDays' = 0
             /\ UNCHANGED aLargestOk
    /\ UNCHANGED <<aFn, aClock, aCache, aResult, aCurEnd, aIter>>

\* test_max_window, one probe: the baseline of 30 days, then 30 days more at a
\* time up to 365; the first failure ends the test with last_success, which
\* starts at 30
TestMaxWindowProbe ==
    /\ \/ /\ aPc \in {"idle", "done", "raised"}
          /\ \E ok \in BOOLEAN :
              /\ aLargestOk' = (IF ok THEN baseline_days ELSE 0)
              /\ aMaxDays' = baseline_days
              /\ aPc' = (IF ok /\ baseline_days + window_step <= max_test_default
                         THEN "maxwin" ELSE "idle")
              /\ aDays' = (IF ok THEN baseline_days + window_step ELSE 0)
          /\ aProbes' = 1
          /\ aFn' = TestMaxWindow
       \/ /\ aPc = "maxwin"
          /\ \E ok \in BOOLEAN :
              /\ aLargestOk' = (IF ok THEN aDays ELSE aLargestOk)
              /\ aMaxDays' = (IF ok THEN aDays ELSE aMaxDays)
              /\ aPc' = (IF ok /\ aDays + window_step <= max_test_default
                         THEN "maxwin" ELSE "idle")
              /\ aDays' = (IF ok THEN aDays + window_step ELSE 0)
          /\ aProbes' = aProbes + 1
          /\ UNCHANGED aFn
    /\ aResult' = NoAvailability
    /\ aCurEnd' = 0
    /\ aIter' = 0
    /\ UNCHANGED <<aClock, aCache>>

\* the rest of check_*_availability: the search for the start of the data
\* (one probe at least), the result, set_cached
AvailFindStart ==
    /\ aPc = "start"
    /\ \E total \in StartDays, probes \in 1..2 :
        /\ aProbes' = aProbes + probes
        /\ aResult' = [max_days |-> aMaxDays, total_days |-> total]
        /\ aCache' = SetCached(aCache, CacheKey(aFn),
                               [max_days |-> aMaxDays, total_days |-> total], aClock)
    /\ aPc' = "have"
    /\ UNCHANGED <<aFn, aClock, aDays, aLargestOk, aMaxDays, aCurEnd, aIter>>

\* days_to_fetch of the two mains: all the history, or DATA_PERIOD_DAYS, which
\* the portal main clips to the start of the data
DaysToFetch(fn, period, total) ==
    IF period < 0 THEN total
    ELSE IF fn = CheckHsv THEN Min2(period, total)
    ELSE period

\* main after the availability check: one request when days_to_fetch is
\* within max_chunk_size, the chunk loop otherwise; total_chunks divides by
\* max_chunk_size before the loop starts
MainPlan ==
    /\ aPc = "have"
    /\ \E period \in PeriodChoices :
        \E days \in {DaysToFetch(aFn, period, aResult.total_days)} :
            IF days <= aResult.max_days
            THEN aPc' = "done" /\ aCurEnd' = 0
            ELSE IF aResult.max_days = 0
            THEN aPc' = "raised" /\ aCurEnd' = 0
            ELSE aPc' = (IF days > 0 THEN "loop" ELSE "done") /\ aCurEnd' = days
    /\ aIter' = 0
    /\ UNCHANGED <<aFn, aClock, aCache, aDays, aLargestOk, aMaxDays, aResult, aProbes>>

\* one pass of `while current_end > start_date`, start_date being day 0
MainChunk ==
    /\ aPc = "loop"
    /\ aCurEnd <= MaxCurEnd
    /\ \E current_start \in {Max2(aCurEnd - (aResult.max_days - 1), 0)} :
        /\ aCurEnd' = current_start - 1
        /\ aPc' = (IF current_start - 1 > 0 THEN "loop" ELSE "done")
    /\ aIter' = aIter + 1
    /\ UNCHANGED <<aFn, aClock, aCache, aDays, aLargestOk, aMaxDays, aResult, aProbes>>

AvailFrame == <<mergeVars, passVars, pollVars, planVars, updVars, retryVars, sessVars, serVars, polVars, disVars, flowVars, testVars, collVars>>

NextAvail ==
    \/ AvailCheck /\ UNCHANGED AvailFrame
    \/ TestHsvMaxWindow /\ UNCHANGED AvailFrame
    \/ TestMaxWindowProbe /\ UNCHANGED AvailFrame
    \/ AvailFindStart /\ UNCHANGED AvailFrame
    \/ MainPlan /\ UNCHANGED AvailFrame
    \/ MainChunk /\ UNCHANGED AvailFrame

SpecAvail == InitAvail /\ [][NextAvail]_vars

\* test_hsv_max_window has just returned
WindowTested == aFn = CheckHsv /\ aPc = "start"

\* C33: the value test_hsv_max_window returns is the largest window size whose
\* probe succeeded, and it is a positive number of days
C33_MaxWindowProbe ==
    WindowTested => (aMaxDays = aLargestOk /\ aMaxDays > 0)


\* the entry of `key` was set less than 24 hours before `now`
ValidEntry(key, now) == aCache[key].set /\ now - aCache[key].at < cache_hours

EntryData(key) == [max_days |-> aCache[key].max_days, total_days |-> aCache[key].total_days]

\* a step that is a call of check_hsv_availability or check_ecobee_availability
CheckCalled ==
    /\ aPc \in {"idle", "done", "raised"}
    /\ aFn' \in CheckFns
    /\ aPc' \in {"have", "window", "start"}

\* C34: get_cached(key) answers with the data of the last set_cached(key, data)
\* while that is less than 24 hours old, and with None once it is older or when
\* the key was never set; a call of check_hsv_availability or
\* check_ecobee_availability that finds a valid entry returns it and sends no
\* probe, and a call that finds none goes on to probe
C34_CacheValidity ==
    /\ [](\A key \in CacheKeys :
            \E cached \in {GetCached(aCache, key, aClock)} :
                IF ValidEntry(key, aClock)
                THEN /\ cached.hit
                     /\ cached.max_days = aCache[key].max_days
                     /\ cached.total_days = aCache[key].total_days
                ELSE ~cached.hit)
    /\ [][CheckCalled =>
            IF ValidEntry(CacheKey(aFn'), aClock')
            THEN /\ aPc' = "have"
                 /\ aResult' = EntryData(CacheKey(aFn'))
                 /\ aProbes' = 0
                 /\ aCache' = aCache
            ELSE aPc' \in {"window", "start"}]_vars

\* a check answered from an entry cached 12 hours before, without a probe,
\* while the other key's entry was never set
C34_Witness ==
    /\ aPc = "have"
    /\ aFn = CheckEcobee
    /\ aProbes = 0
    /\ aCache["ecobee"].set
    /\ aClock = aCache["ecobee"].at + 12
    /\ aResult = EntryData("ecobee")
    /\ ~aCache["hsv"].set


\* C36: every pass of the chunk loop leaves current_end strictly earlier than
\* it found it, whatever maximum window the availability check handed over,
\* so the loop comes to its end
C36_ChunkLoopTerminates ==
    [][(aPc = "loop" /\ aIter' = aIter + 1) => aCurEnd' < aCurEnd]_vars

---------------------------------------------------------------------------
(* hsv_test_login of the integration, as the config flow runs it in the
   executor: every call builds its session with create_session on the one
   file .hsv_test_token.json of the working directory and unlinks that file
   when it returns.  Two calls are explored, side by side and one after the
   other; a step is one access to the file together with the requests made
   around it. *)

TestUsers == {"u1", "u2"}

TestCredentials == [user : TestUsers, good : BOOLEAN]

\* the answers of GET /services/secured/accounts?user=<user> to a bearer
\* token: 200 for the token's own user; for another user's token the portal's
\* answer is not known
TokenAccepted(token, user) == IF token = user THEN {TRUE} ELSE BOOLEAN

InitLoginTest ==
    /\ tPc = [t \in LoginTests |-> "idle"]
    /\ tCred = [t \in LoginTests |-> NoTestCredentials]
    /\ tSession = [t \in LoginTests |-> "none"]
    /\ tResult = [t \in LoginTests |-> "none"]
    /\ tFile = "none"
    /\ MergeParked
    /\ PassParked
    /\ PollParked
    /\ PlanParked
    /\ UpdateParked
    /\ RetryParked
    /\ SessionParked
    /\ SeriesParked
    /\ PoliteParked
    /\ DiscoverParked
    /\ FlowParked
    /\ AvailParked
    /\ CollectParked

\* async_step_test_hsv hands the credentials of the form to hsv_test_login
LoginTestCall(t) ==
    /\ tPc[t] \in {"idle", "done"}
    /\ \E c \in TestCredentials : tCred' = [tCred EXCEPT ![t] = c]
    /\ tPc' = [tPc EXCEPT ![t] = "load"]
    /\ tSession' = [tSession EXCEPT ![t] = "none"]
    /\ tResult' = [tResult EXCEPT ![t] = "none"]
    /\ UNCHANGED tFile

\* create_session: load_token and, with a token, the probe that returns the
\* session when it is answered with 200
LoginTestLoad(t) ==
    /\ tPc[t] = "load"
    /\ IF tFile = "none"
       THEN /\ tPc' = [tPc EXCEPT ![t] = "login"]
            /\ UNCHANGED tSession
       ELSE \E ok \in TokenAccepted(tFile, tCred[t].user) :
                IF ok
                THEN /\ tSession' = [tSession EXCEPT ![t] = tFile]
                     /\ tPc' = [tPc EXCEPT ![t] = "info"]
                ELSE /\ tPc' = [tPc EXCEPT ![t] = "login"]
                     /\ UNCHANGED tSession
    /\ UNCHANGED <<tCred, tResult, tFile>>

\* create_session: the login; accepted credentials end in save_token, refused
\* ones in None and the result "login failed"
LoginTestLogin(t) ==
    /\ tPc[t] = "login"
    /\ IF tCred[t].good
       THEN /\ tFile' = tCred[t].user
            /\ tSession' = [tSession EXCEPT ![t] = tCred[t].user]
            /\ tPc' = [tPc EXCEPT ![t] = "info"]
            /\ UNCHANGED tResult
       ELSE /\ tResult' = [tResult EXCEPT ![t] = "login failed"]
            /\ tPc' = [tPc EXCEPT ![t] = "unlink"]
            /\ UNCHANGED <<tFile, tSession>>
    /\ UNCHANGED tCred

\* get_account_info with the session
LoginTestInfo(t) ==
    /\ tPc[t] = "info"
    /\ \E ok \in TokenAccepted(tSession[t], tCred[t].user) :
        tResult' = [tResult EXCEPT ![t] = IF ok THEN "ok" ELSE "could not fetch account info"]
    /\ tPc' = [tPc EXCEPT ![t] = "unlink"]
    /\ UNCHANGED <<tCred, tSession, tFile>>

\* the finally clause: Path(tmp_token_file).unlink(missing_ok=True)
LoginTestUnlink(t) ==
    /\ tPc[t] = "unlink"
    /\ tFile' = "none"
    /\ tPc' = [tPc EXCEPT ![t] = "done"]
    /\ UNCHANGED <<tCred, tSession, tResult>>

LoginTestFrame == <<mergeVars, passVars, pollVars, planVars, updVars, retryVars, sessVars, serVars, polVars, disVars, flowVars, availVars, collVars>>

NextLoginTest ==
    \/ (\E t \in LoginTests : LoginTestCall(t)) /\ UNCHANGED LoginTestFrame
    \/ (\E t \in LoginTests : LoginTestLoad(t)) /\ UNCHANGED LoginTestFrame
    \/ (\E t \in LoginTests : LoginTestLogin(t)) /\ UNCHANGED LoginTestFrame
    \/ (\E t \in LoginTests : LoginTestInfo(t)) /\ UNCHANGED LoginTestFrame
    \/ (\E t \in LoginTests : LoginTestUnlink(t)) /\ UNCHANGED LoginTestFrame

SpecLoginTest == InitLoginTest /\ [][NextLoginTest]_vars

\* C35: a login test that has returned reports "ok" exactly when the
\* credentials passed to it are accepted by the portal, whatever other login
\* test runs beside it or ran before it, and leaves no token file behind
C35_LoginTestIndependence ==
    \A t \in LoginTests :
        tPc[t] = "done" =>
            /\ (tResult[t] = "ok") = tCred[t].good
            /\ tFile = "none"

---------------------------------------------------------------------------
(* Outcome accounting of the passes of Spec *)

\* readings in the portal's data file; an absent or unparsable file holds none
HsvFileReadings(file) ==
    IF file.exists /\ file.parses
    THEN Len(file.data.electric.iv.HOURLY.rd) + Len(file.data.electric.iv.MONTHLY.rd)
         + Len(file.data.gas.iv.HOURLY.rd) + Len(file.data.gas.iv.MONTHLY.rd)
         + Len(file.data.water.iv.HOURLY.rd) + Len(file.data.water.iv.MONTHLY.rd)
    ELSE 0

\* rows in the thermostat's data file
EcoFileReadings(file) == IF file.exists /\ file.parses THEN Len(file.rd) ELSE 0

\* a step in which a pass returns ok
HsvPassOk == source = "hsv" /\ hsvOutcome'.kind = "returned" /\ hsvOutcome'.ok
EcoPassOk ==
    /\ source = "ecobee"
    /\ ecoPc # "done"
    /\ ecoPc' = "done"
    /\ ecoOutcome'.kind = "returned"
    /\ ecoOutcome'.ok

\* the same, for a pass that is not test_only
HsvDataPassOk == HsvPassOk /\ hsvOutcome'.requests > 0
EcoDataPassOk == EcoPassOk /\ ecoPc = "fetch"

Accounted(outcome, before, after) ==
    /\ outcome.total = after
    /\ outcome.added = outcome.total - before

\* C37 as stated: every pass that returns ok reports as total the number of
\* readings in the data file after the pass and as added that total minus the
\* number of readings in the file before the pass
C37_EveryOkPass ==
    [][/\ HsvPassOk => Accounted(hsvOutcome', HsvFileReadings(hsvFile), HsvFileReadings(hsvFile'))
       /\ EcoPassOk => Accounted(ecoOutcome', EcoFileReadings(ecoFile), EcoFileReadings(ecoFile'))]_vars

\* C37: every pass that returns ok and is not a test_only pass reports as total
\* the number of readings in the data file after the pass and as added that
\* total minus the number of readings in the file before the pass
C37_OutcomeAccounting ==
    [][/\ HsvDataPassOk => Accounted(hsvOutcome', HsvFileReadings(hsvFile), HsvFileReadings(hsvFile'))
       /\ EcoDataPassOk => Accounted(ecoOutcome', EcoFileReadings(ecoFile), EcoFileReadings(ecoFile'))]_vars

\* a pass added one reading to a file that held two
C37_Witness ==
    /\ source = "hsv"
    /\ hsvOutcome = Returned(TRUE, "ok", 1, 3, Len(Industries))
    /\ HsvFileReadings(hsvFile) = 3


\* C38: a pass of run_hsv_incremental that made its usage requests returns
\* ok = true only when each of them was answered with status 200
C38_SuccessMeansFetched ==
    (source = "hsv" /\ hsvOutcome.kind = "returned" /\ hsvOutcome.ok /\ hsvOutcome.requests > 0) =>
        \A status \in hsvSeen : status = 200

---------------------------------------------------------------------------
(* The sensor platform's coordinator over its life: the first refresh reads
   the files only, every later update runs _collect_data, which sizes its
   lookback from self._last_collection.  Time is counted in hours. *)

MaxCollectHours == 96     \* updates are followed up to this hour

hours_per_day           == 24
default_data_period_days == 7
min_period_days         == 1

\* hours between two updates (update_interval is configured)
CollectionIntervals == {12, 24}

InitCollect ==
    /\ cNow = 0
    /\ cFirstRefresh = TRUE
    /\ cLast = NoCollection
    /\ cGood = [s \in CollectedSources |-> NoCollection]
    /\ cLookback = 0
    /\ cOutcome = [s \in CollectedSources |-> FALSE]
    /\ MergeParked
    /\ PassParked
    /\ PollParked
    /\ PlanParked
    /\ UpdateParked
    /\ RetryParked
    /\ SessionParked
    /\ SeriesParked
    /\ PoliteParked
    /\ DiscoverParked
    /\ FlowParked
    /\ AvailParked
    /\ TestParked

\* _async_update_data on the first refresh: no collection
CollectSkipped ==
    /\ cFirstRefresh
    /\ cFirstRefresh' = FALSE
    /\ UNCHANGED <<cNow, cLast, cGood, cLookback, cOutcome>>

\* data_period_days of _collect_data
DataPeriodDays(last, now) ==
    IF last = NoCollection THEN default_data_period_days
    ELSE Max2(min_period_days, ((now - last) \div hours_per_day) + 1)

\* _async_update_data after the first refresh: _collect_data runs the two
\* collectors, whose results it does not read, and sets _last_collection
CollectData ==
    /\ ~cFirstRefresh
    /\ \E dt \in CollectionIntervals :
        /\ cNow + dt <= MaxCollectHours
        /\ cNow' = cNow + dt
        /\ cLookback' = DataPeriodDays(cLast, cNow + dt)
        /\ \E hsv \in BOOLEAN, ecobee \in BOOLEAN :
            /\ cOutcome' = [hsv |-> hsv, ecobee |-> ecobee]
            /\ cGood' = [hsv |-> IF hsv THEN cNow + dt ELSE cGood.hsv,
                         ecobee |-> IF ecobee THEN cNow + dt ELSE cGood.ecobee]
        /\ cLast' = cNow + dt
    /\ UNCHANGED cFirstRefresh

CollectFrame == <<mergeVars, passVars, pollVars, planVars, updVars, retryVars, sessVars, serVars, polVars, disVars, flowVars, availVars, testVars>>

NextCollect ==
    \/ CollectSkipped /\ UNCHANGED CollectFrame
    \/ CollectData /\ UNCHANGED CollectFrame

SpecCollect == InitCollect /\ [][NextCollect]_vars

\* a step that is an incremental collection
IncrementalCollection == ~cFirstRefresh /\ cNow' > cNow /\ cLast # NoCollection

\* C39: the lookback of every incremental collection reaches back at least to
\* the last collection that succeeded, for each source, and a collection in
\* which a source failed leaves the last-collection marker where it was
C39_LookbackAfterFailures ==
    [][/\ IncrementalCollection =>
            \A s \in CollectedSources :
                cGood[s] # NoCollection => cNow' - hours_per_day * cLookback' <= cGood[s]
       /\ (cNow' > cNow /\ \E s \in CollectedSources : ~cOutcome'[s]) => cLast' = cLast]_vars

===========================================================================
